---- MODULE Spec2Model ----
(***************************************************************************)
(* Kavach backend (backend/main.py): the alert-notification subsystem.     *)
(*                                                                         *)
(* State: the process-wide stores user_alert_settings, alert_history and   *)
(* otp_storage, the wall clock, and the request handlers in flight.        *)
(* check_alerts is the only handler with suspension points (the awaited    *)
(* channel sends), so it is modelled as a process with a position; every   *)
(* other handler runs to completion in one step.                           *)
(*                                                                         *)
(* An alert is modelled by the fields id, type, level, value, threshold.   *)
(* Its message is a function of type and value, and location / timestamp   *)
(* are copied from the request and the clock; no modelled handler reads    *)
(* them back.                                                              *)
(***************************************************************************)
EXTENDS Integers, Sequences, FiniteSets, TLC

VARIABLES
    user_alert_settings,  \* dict user_id -> settings record (main.py:630)
    alert_history,        \* list of alerts (main.py:629)
    otp_storage,          \* dict user_id -> OTP record (main.py:950)
    now,                  \* datetime.now(), in minutes
    calls,                \* check_alerts invocations in flight, by slot
    resp,                 \* the response of the handler that returned last
    max_issued_id,        \* history variable: greatest alert id ever assigned
    chat,                 \* attributes of chat_explanation: cache, cache_time,
                          \* last_api_call (main.py:155-158)
    time_now,             \* time.time(), in seconds
    chat_resp             \* the last response of chat_explanation

\* The state of the explanation endpoint, which no other handler touches.
chat_vars == <<chat, time_now, chat_resp>>

vars == <<user_alert_settings, alert_history, otp_storage, now, calls, resp,
          max_issued_id, chat_vars>>

-----------------------------------------------------------------------------
(* Bounds of the model *)

MaxHistory == 4

MaxNow == 12

(* Program constants *)

LandslideEmergency == 85
LandslideWarning == 70
FloodEmergency == 80
FloodWarning == 60
RainfallEmergency == 150
RainfallWarning == 100
DefaultLimit == 50
OtpTtl == 10
CacheTtl == 1800
RateLimit == 5

-----------------------------------------------------------------------------
(* Inputs *)

Users == {"u1", "u2"}

CallIds == {1, 2}

NoValue == "None"

\* AlertSettings payloads (main.py:73-83): pydantic fills every field.
MkSettings(em, ph, lt, ft, rt, ee, es) ==
    [email |-> em, phone |-> ph,
     landslide_threshold |-> lt, flood_threshold |-> ft,
     rainfall_threshold |-> rt,
     enable_email |-> ee, enable_sms |-> es,
     alert_location |-> "", alert_lat |-> NoValue, alert_lng |-> NoValue]

DefaultSettings == MkSettings("", "", 70, 60, 100, FALSE, FALSE)

\* Request bodies of /alert/check: landslide_risk, flood_risk, rainfall.
MkData(l, f, r) == [landslide_risk |-> l, flood_risk |-> f, rainfall |-> r]

\* Inputs of Spec, the whole system: two users, two settings payloads that
\* differ in every field the handlers read, two metric readings.
SettingsInputs ==
    {MkSettings("a@x.in", "9163615366", 10, 10, 10, TRUE, TRUE),
     MkSettings("b@x.in", "", 70, 60, 100, TRUE, FALSE)}

DataInputs == {MkData(72, 12, 150), MkData(12, 12, 12)}

\* Queries of /alert/history: no limit given, or one of these.
HistoryQueries == {<<>>, <<0>>, <<1>>, <<2>>}

\* Inputs of SpecBands, the evaluation of the metrics: readings below every
\* threshold, inside each band and on each band's lower edge, for users
\* whose thresholds lie below the bands and on them; no channel enabled.
BandsSettings ==
    {MkSettings("", "", t[1], t[2], t[3], FALSE, FALSE) :
        t \in {<<10, 10, 10>>, <<70, 60, 100>>}}

BandsData ==
    {MkData(5, 5, 5), MkData(12, 12, 12), MkData(70, 60, 100),
     MkData(85, 80, 150), MkData(72, 12, 100), MkData(12, 80, 12)}

\* Inputs of SpecNotify, the dispatch of a call's alerts: every combination
\* of the two enable flags, with and without contacts, and readings that
\* raise three, one and no alert.
NotifySettings ==
    {MkSettings(cp[1], cp[2], 10, 10, 10, ee, es) :
        cp \in {<<"a@x.in", "9163615366">>, <<"", "">>},
        ee \in BOOLEAN, es \in BOOLEAN}

NotifyData == {MkData(12, 12, 12), MkData(5, 80, 5), MkData(5, 5, 5)}

\* Inputs of SpecAll, every handler together for one user: a settings
\* payload and readings that raise one alert, sent over both channels, or
\* none, and the OTP inputs.
AllUsers == {"u1"}

AllSettings == {MkSettings("a@x.in", "9163615366", 70, 60, 100, TRUE, TRUE)}

AllData == {MkData(72, 12, 12), MkData(12, 12, 12)}

AllQueries == {<<>>, <<1>>}

OtpPhones == {"", "9163615366"}
OtpDraws == {100000}
OtpEntries == {<<1, 0, 0, 0, 0, 0>>, <<9, 9, 9, 9, 9, 9>>}
Deliveries == {"sent", "unconfigured", "failed"}
TickSteps == {11}

\* Inputs of SpecOtp, the OTP handlers alone for two users: a missing
\* phone and two phones, the two ends of the range the code is drawn from,
\* entered strings that equal a code, differ from it (one by a trailing
\* character only), or are missing, every
\* outcome of the provider, and clock steps that put a verify before, on and
\* after the expiry of a record issued at time 0.
VerifyPhones == {"", "9163615366", "+919000000001"}

VerifyDraws == {100000, 999999}

VerifyEntries ==
    {<<1, 0, 0, 0, 0, 0>>, <<9, 9, 9, 9, 9, 9>>, <<1, 0, 0, 0, 0, 0, 0>>, <<>>}

VerifyTicks == {5, 6}

\* Inputs of SpecConcurrent, two check_alerts calls in flight at once for
\* one user with both channels eligible: readings that raise two alerts and
\* one alert.
ConcurrentSettings ==
    {MkSettings("a@x.in", "9163615366", 10, 10, 10, TRUE, TRUE)}

ConcurrentData == {MkData(12, 12, 5), MkData(5, 5, 12)}

\* Inputs of SpecIsolation, the settings, alert and OTP handlers together
\* for two users: two settings payloads with the email channel only, one
\* reading that raises one alert, one phone and code.
IsolationSettings ==
    {MkSettings("a@x.in", "9163615366", 70, 60, 100, TRUE, FALSE),
     MkSettings("b@x.in", "", 70, 60, 100, TRUE, FALSE)}

IsolationData == {MkData(72, 12, 12)}

IsolationPhones == {"9163615366"}

IsolationDeliveries == {"sent", "failed"}

IsolationEntries == {<<1, 0, 0, 0, 0, 0>>, <<9, 9, 9, 9, 9, 9>>}

\* Request bodies of /chat_explanation.
MkRisk(l, s, r) ==
    [landslide_risk |-> l, slope_calculated |-> s, rainfall_intensity |-> r]

\* Inputs of SpecChat, the explanation endpoint: two requests that fall
\* into the same cache key and one that does not, and the instants at
\* which requests arrive, as time.time() values: the start, 4 and 5
\* seconds after it, just over 10 minutes, just under 30 minutes, 30
\* minutes, and 4 and 5 seconds after that.
ChatRequests == {MkRisk(72, 30, 40), MkRisk(75, 32, 45), MkRisk(20, 10, 5)}

ChatStart == 1000

ChatTimes ==
    {ChatStart + d : d \in {0, 4, 5, 601, 1799, 1800, 1804, 1805}}

\* What client.models.generate_content and the formatting of its text do:
\* return, or raise into the except branch of line 206.
ApiOutcomes == {"ok", "raised"}

-----------------------------------------------------------------------------
(* Python helpers *)

Max(a, b) == IF a >= b THEN a ELSE b
Min(a, b) == IF a <= b THEN a ELSE b

\* seq[start:] with Python's slice normalisation (0-based start).
PySliceFrom(seq, start) ==
    LET n == Len(seq)
        s == IF start < 0 THEN Max(n + start, 0) ELSE Min(start, n)
    IN  SubSeq(seq, s + 1, n)

\* dict.get(key, default)
DictGet(d, k, default) == IF k \in DOMAIN d THEN d[k] ELSE default

\* Mutant of DictPut: d.setdefault(k, v), an existing entry is kept.
DictPutKeep(d, k, v) ==
    [x \in (DOMAIN d) \cup {k} |-> IF x \in DOMAIN d THEN d[x] ELSE v]

\* d[k] = v on a dict
DictPut(d, k, v) == [x \in (DOMAIN d) \cup {k} |-> IF x = k THEN v ELSE d[x]]

\* Mutant of DictDel: the key stays.
DictDelNothing(d, k) == d

\* del d[k]
DictDel(d, k) == [x \in (DOMAIN d) \ {k} |-> d[x]]

EmptyDict == [x \in {} |-> TRUE]

-----------------------------------------------------------------------------
(* Severity bands (main.py:806, 822, 838) *)

LandslideLevel(v) ==
    IF v >= LandslideEmergency THEN "EMERGENCY"
    ELSE IF v >= LandslideWarning THEN "WARNING" ELSE "WATCH"

\* Mutant of FloodLevel: bands open on the lower edge.
FloodLevelOpen(v) ==
    IF v > FloodEmergency THEN "EMERGENCY"
    ELSE IF v > FloodWarning THEN "WARNING" ELSE "WATCH"

FloodLevel(v) ==
    IF v >= FloodEmergency THEN "EMERGENCY"
    ELSE IF v >= FloodWarning THEN "WARNING" ELSE "WATCH"

RainfallLevel(v) ==
    IF v >= RainfallEmergency THEN "EMERGENCY"
    ELSE IF v >= RainfallWarning THEN "WARNING" ELSE "WATCH"

\* Mutant of Triggered: the gate open only above the threshold.
TriggeredStrict(value, threshold) == value > threshold

\* The gate of each metric: value >= settings threshold.
Triggered(value, threshold) == value >= threshold

\* "id": len(alert_history) + 1
NextId(hist) == Len(hist) + 1

MkAlert(hist, type, level, value, threshold) ==
    [id |-> NextId(hist), type |-> type, level |-> level,
     value |-> value, threshold |-> threshold]

\* Mutant of Appended: the alert reaches the local list only.
AppendedLocal(st, alert) ==
    [alerts |-> Append(st.alerts, alert), hist |-> st.hist]

\* The two lists a call appends to: its local `alerts` and the shared
\* alert_history (as `hist`).
Appended(st, alert) ==
    [alerts |-> Append(st.alerts, alert), hist |-> Append(st.hist, alert)]

\* Mutant of LandslideStep: the bands measured from the user's threshold.
LandslideStepRelative(st, settings, data) ==
    IF Triggered(data.landslide_risk, settings.landslide_threshold)
    THEN Appended(st, MkAlert(st.hist, "Landslide",
                              IF data.landslide_risk
                                   >= settings.landslide_threshold + 15
                              THEN "EMERGENCY" ELSE "WARNING",
                              data.landslide_risk,
                              settings.landslide_threshold))
    ELSE st

\* Lines 805-818
LandslideStep(st, settings, data) ==
    IF Triggered(data.landslide_risk, settings.landslide_threshold)
    THEN Appended(st, MkAlert(st.hist, "Landslide",
                              LandslideLevel(data.landslide_risk),
                              data.landslide_risk,
                              settings.landslide_threshold))
    ELSE st

\* Lines 821-834
FloodStep(st, settings, data) ==
    IF Triggered(data.flood_risk, settings.flood_threshold)
    THEN Appended(st, MkAlert(st.hist, "Flood",
                              FloodLevel(data.flood_risk),
                              data.flood_risk,
                              settings.flood_threshold))
    ELSE st

\* Lines 837-850
RainfallStep(st, settings, data) ==
    IF Triggered(data.rainfall, settings.rainfall_threshold)
    THEN Appended(st, MkAlert(st.hist, "Heavy Rainfall",
                              RainfallLevel(data.rainfall),
                              data.rainfall,
                              settings.rainfall_threshold))
    ELSE st

\* Mutant of Evaluate: ids counted from the call's own list,
\* "id": len(alerts) + 1.
EvaluateLocalIds(hist, settings, data) ==
    LET st == RainfallStep(FloodStep(LandslideStep(
                  [alerts |-> <<>>, hist |-> <<>>], settings, data),
                  settings, data), settings, data)
    IN  [alerts |-> st.alerts, hist |-> hist \o st.alerts]

\* Mutant of Evaluate: the length of the history is read once, before the
\* three blocks, and every alert of the call takes its id from that reading.
EvaluateStaleLength(hist, settings, data) ==
    LET st == RainfallStep(FloodStep(LandslideStep(
                  [alerts |-> <<>>, hist |-> hist], settings, data),
                  settings, data), settings, data)
        alerts == [k \in 1..Len(st.alerts) |->
                      [st.alerts[k] EXCEPT !.id = NextId(hist)]]
    IN  [alerts |-> alerts, hist |-> hist \o alerts]

\* Lines 801-850: the three blocks in order; no suspension point lies
\* between them.
Evaluate(hist, settings, data) ==
    RainfallStep(FloodStep(LandslideStep([alerts |-> <<>>, hist |-> hist],
                                         settings, data),
                           settings, data),
                 settings, data)

-----------------------------------------------------------------------------
(* Channel eligibility (main.py:862, 873): truthiness of flag and contact *)

\* Mutant of EmailEligible: the contact field is not looked at.
EmailEligibleFlagOnly(settings) == settings.enable_email

EmailEligible(settings) == settings.enable_email /\ settings.email # ""

SmsEligible(settings) == settings.enable_sms /\ settings.phone # ""

-----------------------------------------------------------------------------
(* check_alerts in flight *)

\* A slot's record holds the handler's locals: user_id, the readings of
\* the request (data), settings, alerts, the loop index i (1-based),
\* email_sent, sms_sent; `configured` is the outcome of the test of line
\* 797, and `log` records the sends the call has awaited so far with their
\* results.
IdleCall ==
    [pc |-> "idle", user |-> "", data |-> MkData(0, 0, 0),
     configured |-> FALSE,
     settings |-> EmptyDict, alerts |-> <<>>, i |-> 0,
     email_sent |-> FALSE, sms_sent |-> FALSE, log |-> <<>>]

\* Mutant of EnterAlert: the SMS branch comes first in the loop body.
EnterAlertSmsFirst(settings, alerts, i) ==
    IF i > Len(alerts) THEN [pc |-> "return", i |-> i]
    ELSE IF SmsEligible(settings) THEN [pc |-> "sms", i |-> i]
    ELSE IF EmailEligible(settings) THEN [pc |-> "email", i |-> i]
    ELSE [pc |-> "return", i |-> Len(alerts) + 1]

\* Where the loop of lines 861-882 suspends next, entering alert i at the
\* email branch: the first awaited send, or "return" when the loop ends
\* without one.
EnterAlert(settings, alerts, i) ==
    IF i > Len(alerts) THEN [pc |-> "return", i |-> i]
    ELSE IF EmailEligible(settings) THEN [pc |-> "email", i |-> i]
    ELSE IF SmsEligible(settings) THEN [pc |-> "sms", i |-> i]
    ELSE [pc |-> "return", i |-> Len(alerts) + 1]

\* Mutant of AfterEmail: the SMS branch of the alert is passed over.
AfterEmailSkipSms(settings, alerts, i) == EnterAlert(settings, alerts, i + 1)

\* After the email branch of alert i: its SMS branch, or the next alert.
AfterEmail(settings, alerts, i) ==
    IF SmsEligible(settings) THEN [pc |-> "sms", i |-> i]
    ELSE EnterAlert(settings, alerts, i + 1)

\* After the SMS branch of alert i: the next alert.
AfterSms(settings, alerts, i) == EnterAlert(settings, alerts, i + 1)

\* Mutant of EmailFlag: email_sent = email_result.
EmailFlagLast(flag, result) == result

\* if email_result: email_sent = True (lines 865-866)
EmailFlag(flag, result) == flag \/ result

\* if sms_result: sms_sent = True (lines 876-877)
SmsFlag(flag, result) == flag \/ result

\* Lines 886-893
CheckResponse(user, alerts, email_sent, sms_sent) ==
    [op |-> "check_alerts", user |-> user, status |-> "success",
     alerts |-> alerts,
     notifications |-> [email_sent |-> email_sent, sms_sent |-> sms_sent]]

\* Line 799
NotConfiguredResponse(user) ==
    [op |-> "check_alerts", user |-> user, status |-> "success",
     alerts |-> <<>>, message |-> "No settings configured"]

\* Mutant of NotConfigured: settings without a phone count as absent.
NotConfiguredOrNoPhone(settings) ==
    IF settings = EmptyDict THEN TRUE ELSE settings.phone = ""

\* if not settings (line 797): an empty dict is falsy.
NotConfigured(settings) == settings = EmptyDict

\* Lines 784-860, up to the first awaited send or the return statement.
check_alerts(c, user_id, data) ==
    /\ calls[c].pc = "idle"
    /\ LET settings == DictGet(user_alert_settings, user_id, EmptyDict)
       IN  IF NotConfigured(settings)
           THEN /\ calls' = [calls EXCEPT ![c] =
                               [IdleCall EXCEPT !.pc = "return",
                                                !.user = user_id,
                                                !.data = data]]
                /\ UNCHANGED <<alert_history, max_issued_id>>
           ELSE LET st == Evaluate(alert_history, settings, data)
                    pos == EnterAlert(settings, st.alerts, 1)
                IN  /\ Len(st.hist) <= MaxHistory
                    /\ alert_history' = st.hist
                    /\ max_issued_id' =
                         IF st.alerts = <<>> THEN max_issued_id
                         ELSE Max(max_issued_id,
                                  st.alerts[Len(st.alerts)].id)
                    /\ calls' = [calls EXCEPT ![c] =
                                   [pc |-> pos.pc, user |-> user_id,
                                    data |-> data,
                                    configured |-> TRUE,
                                    settings |-> settings,
                                    alerts |-> st.alerts, i |-> pos.i,
                                    email_sent |-> FALSE,
                                    sms_sent |-> FALSE, log |-> <<>>]]
    /\ UNCHANGED <<user_alert_settings, otp_storage, now, resp, chat_vars>>

\* What a sender does with the provider: send_email_alert returns True
\* after resend.Emails.send, False when the API key is missing (lines
\* 639-641) and False when anything in its body raises (lines 682-684).
EmailOutcomes == {"sent", "no_key", "raised"}

EmailResult(outcome) == outcome = "sent"

\* send_sms_alert returns True after client.messages.create; a missing
\* credential and a Twilio error (caught at line 705) both fall through to
\* the return False of line 745, any other exception to that of line 749.
SmsOutcomes == {"sent", "unconfigured", "twilio_error", "raised"}

SmsResult(outcome) == outcome = "sent"

\* The awaited send_email_alert of line 864 returns `result`
\* (main.py:633-684: True, or False on a missing key or any exception).
send_email_alert(c, result) ==
    /\ calls[c].pc = "email"
    /\ LET call == calls[c]
           pos == AfterEmail(call.settings, call.alerts, call.i)
       IN  calls' = [calls EXCEPT ![c] =
                       [call EXCEPT
                          !.pc = pos.pc, !.i = pos.i,
                          !.email_sent = EmailFlag(call.email_sent, result),
                          !.log = Append(call.log,
                                         [ch |-> "email", alert |-> call.i,
                                          to |-> call.settings.email,
                                          ok |-> result])]]
    /\ UNCHANGED <<user_alert_settings, alert_history, otp_storage, now,
                   resp, max_issued_id,
                   chat_vars>>

\* The awaited send_sms_alert of line 875 returns `result`
\* (main.py:686-749).
send_sms_alert(c, result) ==
    /\ calls[c].pc = "sms"
    /\ LET call == calls[c]
           pos == AfterSms(call.settings, call.alerts, call.i)
       IN  calls' = [calls EXCEPT ![c] =
                       [call EXCEPT
                          !.pc = pos.pc, !.i = pos.i,
                          !.sms_sent = SmsFlag(call.sms_sent, result),
                          !.log = Append(call.log,
                                         [ch |-> "sms", alert |-> call.i,
                                          to |-> call.settings.phone,
                                          ok |-> result])]]
    /\ UNCHANGED <<user_alert_settings, alert_history, otp_storage, now,
                   resp, max_issued_id,
                   chat_vars>>

\* The return statement of line 799 or of lines 886-893. It reads the
\* call's locals only, so the response is fixed once the call reaches it.
check_alerts_return(c) ==
    /\ calls[c].pc = "return"
    /\ resp' = IF calls[c].configured
               THEN CheckResponse(calls[c].user, calls[c].alerts,
                                  calls[c].email_sent, calls[c].sms_sent)
               ELSE NotConfiguredResponse(calls[c].user)
    /\ calls' = [calls EXCEPT ![c] = IdleCall]
    /\ UNCHANGED <<user_alert_settings, alert_history, otp_storage, now,
                   max_issued_id,
                   chat_vars>>

-----------------------------------------------------------------------------
(* Settings store (main.py:751-772) *)

\* Mutant of save_alert_settings: the stored record is updated field by
\* field and an empty contact in the payload keeps the stored one.
save_alert_settings_merge(user_id, settings) ==
    /\ user_alert_settings' =
          DictPut(user_alert_settings, user_id,
                  IF user_id \in DOMAIN user_alert_settings
                  THEN [settings EXCEPT
                          !.email = IF settings.email # "" THEN settings.email
                                    ELSE user_alert_settings[user_id].email,
                          !.phone = IF settings.phone # "" THEN settings.phone
                                    ELSE user_alert_settings[user_id].phone]
                  ELSE settings)
    /\ resp' = [op |-> "save_alert_settings", user |-> user_id,
                status |-> "success", message |-> "Alert settings saved"]
    /\ UNCHANGED <<alert_history, otp_storage, now, calls, max_issued_id,
                   chat_vars>>

\* Mutant of save_alert_settings: the stored dict is updated in place,
\* user_alert_settings[user_id].update(settings.dict()), so a call in
\* flight that loaded it sees the new fields through its local `settings`.
save_alert_settings_in_place(user_id, settings) ==
    /\ user_alert_settings' = DictPut(user_alert_settings, user_id, settings)
    /\ resp' = [op |-> "save_alert_settings", user |-> user_id,
                status |-> "success", message |-> "Alert settings saved"]
    /\ calls' = [c \in CallIds |->
                    IF /\ calls[c].pc # "idle"
                       /\ calls[c].configured
                       /\ calls[c].user = user_id
                    THEN [calls[c] EXCEPT !.settings = settings]
                    ELSE calls[c]]
    /\ UNCHANGED <<alert_history, otp_storage, now, max_issued_id,
                   chat_vars>>

\* Mutant of save_alert_settings: the payload is stored for every user
\* that has a record, as well as for user_id.
save_alert_settings_global(user_id, settings) ==
    /\ user_alert_settings' =
          [u \in DOMAIN user_alert_settings \cup {user_id} |-> settings]
    /\ resp' = [op |-> "save_alert_settings", user |-> user_id,
                status |-> "success", message |-> "Alert settings saved"]
    /\ UNCHANGED <<alert_history, otp_storage, now, calls, max_issued_id,
                   chat_vars>>

save_alert_settings(user_id, settings) ==
    /\ user_alert_settings' = DictPut(user_alert_settings, user_id, settings)
    /\ resp' = [op |-> "save_alert_settings", user |-> user_id,
                status |-> "success", message |-> "Alert settings saved"]
    /\ UNCHANGED <<alert_history, otp_storage, now, calls, max_issued_id,
                   chat_vars>>

\* Mutant of get_alert_settings: user_alert_settings.setdefault(user_id,
\* {...}), which stores the defaults it returns.
get_alert_settings_setdefault(user_id) ==
    /\ user_alert_settings' =
          IF user_id \in DOMAIN user_alert_settings THEN user_alert_settings
          ELSE DictPut(user_alert_settings, user_id, DefaultSettings)
    /\ resp' = [op |-> "get_alert_settings", user |-> user_id,
                status |-> "success",
                settings |-> DictGet(user_alert_settings, user_id,
                                     DefaultSettings)]
    /\ UNCHANGED <<alert_history, otp_storage, now, calls, max_issued_id,
                   chat_vars>>

get_alert_settings(user_id) ==
    /\ resp' = [op |-> "get_alert_settings", user |-> user_id,
                status |-> "success",
                settings |-> DictGet(user_alert_settings, user_id,
                                     DefaultSettings)]
    /\ UNCHANGED <<user_alert_settings, alert_history, otp_storage, now,
                   calls, max_issued_id,
                   chat_vars>>

-----------------------------------------------------------------------------
(* Alert history (main.py:895-908) *)

\* Mutant of HistorySlice: the first `limit` records, alert_history[:limit].
HistorySliceHead(hist, limit) == SubSeq(hist, 1, Min(limit, Len(hist)))

\* alert_history[-limit:] if alert_history else []
HistorySlice(hist, limit) ==
    IF hist # <<>> THEN PySliceFrom(hist, -limit) ELSE <<>>

\* limit: int = 50 (line 896); a query is <<>> or <<limit>>.
LimitOf(query) == IF query = <<>> THEN DefaultLimit ELSE query[1]

get_alert_history(query) ==
    /\ resp' = [op |-> "get_alert_history", query |-> query,
                status |-> "success",
                alerts |-> HistorySlice(alert_history, LimitOf(query))]
    /\ UNCHANGED <<user_alert_settings, alert_history, otp_storage, now,
                   calls, max_issued_id,
                   chat_vars>>

\* Mutant of Cleared: the oldest record is dropped, alert_history[1:].
ClearedOldest(hist) == IF hist = <<>> THEN <<>> ELSE Tail(hist)

\* alert_history = []
Cleared(hist) == <<>>

clear_alert_history ==
    /\ alert_history' = Cleared(alert_history)
    /\ resp' = [op |-> "clear_alert_history", status |-> "success",
                message |-> "Alert history cleared"]
    /\ UNCHANGED <<user_alert_settings, otp_storage, now, calls,
                   max_issued_id,
                   chat_vars>>

-----------------------------------------------------------------------------
(* OTP verification (main.py:948-1043) *)

\* str(n) for n >= 0, as the sequence of its decimal digits.
RECURSIVE PyStr(_)
PyStr(n) == IF n < 10 THEN <<n>> ELSE Append(PyStr(n \div 10), n % 10)

\* random.randint(OtpLow, OtpHigh) draws from this range, ends included.
OtpLow == 100000
OtpHigh == 999999

\* Lines 966-971
NewOtpRecord(phone, n, t) ==
    [phone |-> phone, otp |-> PyStr(n), expiry |-> t + OtpTtl,
     verified |-> FALSE]

\* Mutant of Expired: the record expires at its deadline,
\* datetime.now() >= stored["expiry"].
ExpiredAtDeadline(t, record) == t >= record.expiry

\* datetime.now() > stored["expiry"]
Expired(t, record) == t > record.expiry

\* `delivery` is what the Twilio block of lines 974-1003 does: "sent",
\* "unconfigured" (a credential is missing) or "failed" (it raised).
\* Mutant of send_verification_otp: the record is stored before the phone
\* is looked at.
send_verification_otp_store_first(user_id, phone, n, delivery) ==
    /\ n \in OtpLow..OtpHigh
    /\ otp_storage' = DictPut(otp_storage, user_id,
                              NewOtpRecord(phone, n, now))
    /\ IF phone = ""
       THEN resp' = [op |-> "send_verification_otp", user |-> user_id,
                     status |-> "error",
                     message |-> "Phone number is required"]
       ELSE resp' = [op |-> "send_verification_otp", user |-> user_id,
                     status |-> IF delivery = "sent" THEN "success"
                                ELSE "error",
                     message |->
                       IF delivery = "sent" THEN "Verification code sent"
                       ELSE IF delivery = "unconfigured"
                       THEN "SMS service not configured"
                       ELSE "Failed to send verification code"]
    /\ UNCHANGED <<user_alert_settings, alert_history, now, calls,
                   max_issued_id,
                   chat_vars>>

\* Mutant of send_verification_otp: the record is stored once the message
\* has been handed to the provider.
send_verification_otp_store_on_success(user_id, phone, n, delivery) ==
    /\ n \in OtpLow..OtpHigh
    /\ IF phone = ""
       THEN /\ resp' = [op |-> "send_verification_otp", user |-> user_id,
                        status |-> "error",
                        message |-> "Phone number is required"]
            /\ UNCHANGED otp_storage
       ELSE /\ otp_storage' =
                 IF delivery = "sent"
                 THEN DictPut(otp_storage, user_id,
                              NewOtpRecord(phone, n, now))
                 ELSE otp_storage
            /\ resp' = [op |-> "send_verification_otp", user |-> user_id,
                        status |-> IF delivery = "sent" THEN "success"
                                   ELSE "error",
                        message |->
                          IF delivery = "sent" THEN "Verification code sent"
                          ELSE IF delivery = "unconfigured"
                          THEN "SMS service not configured"
                          ELSE "Failed to send verification code"]
    /\ UNCHANGED <<user_alert_settings, alert_history, now, calls,
                   max_issued_id,
                   chat_vars>>

send_verification_otp(user_id, phone, n, delivery) ==
    /\ n \in OtpLow..OtpHigh
    /\ IF phone = ""
       THEN /\ resp' = [op |-> "send_verification_otp", user |-> user_id,
                        status |-> "error",
                        message |-> "Phone number is required"]
            /\ UNCHANGED otp_storage
       ELSE /\ otp_storage' = DictPut(otp_storage, user_id,
                                      NewOtpRecord(phone, n, now))
            /\ resp' = [op |-> "send_verification_otp", user |-> user_id,
                        status |-> IF delivery = "sent" THEN "success"
                                   ELSE "error",
                        message |->
                          IF delivery = "sent" THEN "Verification code sent"
                          ELSE IF delivery = "unconfigured"
                          THEN "SMS service not configured"
                          ELSE "Failed to send verification code"]
    /\ UNCHANGED <<user_alert_settings, alert_history, now, calls,
                   max_issued_id,
                   chat_vars>>

\* Mutant of verify_otp: a missing record is answered like an expired one.
verify_otp_missing_as_expired(user_id, otp_entered) ==
    /\ IF user_id \notin DOMAIN otp_storage
       THEN /\ resp' = [op |-> "verify_otp", user |-> user_id,
                        status |-> "error", message |-> "OTP expired"]
            /\ UNCHANGED otp_storage
       ELSE LET stored == otp_storage[user_id]
            IN  IF Expired(now, stored)
                THEN /\ otp_storage' = DictDel(otp_storage, user_id)
                     /\ resp' = [op |-> "verify_otp", user |-> user_id,
                                 status |-> "error",
                                 message |-> "OTP expired"]
                ELSE IF stored.otp # otp_entered
                THEN /\ resp' = [op |-> "verify_otp", user |-> user_id,
                                 status |-> "error",
                                 message |-> "Invalid OTP"]
                     /\ UNCHANGED otp_storage
                ELSE /\ otp_storage' =
                          [otp_storage EXCEPT ![user_id].verified = TRUE]
                     /\ resp' = [op |-> "verify_otp", user |-> user_id,
                                 status |-> "success",
                                 message |-> "Phone number verified",
                                 phone |-> stored.phone]
    /\ UNCHANGED <<user_alert_settings, alert_history, now, calls,
                   max_issued_id,
                   chat_vars>>

\* Mutant of verify_otp: the code is used up by a successful verify, which
\* marks the record verified and blanks its code.
verify_otp_one_time(user_id, otp_entered) ==
    /\ IF user_id \notin DOMAIN otp_storage
       THEN /\ resp' = [op |-> "verify_otp", user |-> user_id,
                        status |-> "error", message |-> "No OTP found"]
            /\ UNCHANGED otp_storage
       ELSE LET stored == otp_storage[user_id]
            IN  IF Expired(now, stored)
                THEN /\ otp_storage' = DictDel(otp_storage, user_id)
                     /\ resp' = [op |-> "verify_otp", user |-> user_id,
                                 status |-> "error",
                                 message |-> "OTP expired"]
                ELSE IF stored.otp # otp_entered
                THEN /\ resp' = [op |-> "verify_otp", user |-> user_id,
                                 status |-> "error",
                                 message |-> "Invalid OTP"]
                     /\ UNCHANGED otp_storage
                ELSE /\ otp_storage' =
                          [otp_storage EXCEPT ![user_id].verified = TRUE,
                                              ![user_id].otp = <<>>]
                     /\ resp' = [op |-> "verify_otp", user |-> user_id,
                                 status |-> "success",
                                 message |-> "Phone number verified",
                                 phone |-> stored.phone]
    /\ UNCHANGED <<user_alert_settings, alert_history, now, calls,
                   max_issued_id,
                   chat_vars>>

\* Mutant of verify_otp: only the first six characters of the entered
\* string are compared, stored["otp"] != otp_entered[:6].
verify_otp_first_six(user_id, otp_entered) ==
    /\ IF user_id \notin DOMAIN otp_storage
       THEN /\ resp' = [op |-> "verify_otp", user |-> user_id,
                        status |-> "error", message |-> "No OTP found"]
            /\ UNCHANGED otp_storage
       ELSE LET stored == otp_storage[user_id]
            IN  IF Expired(now, stored)
                THEN /\ otp_storage' = DictDel(otp_storage, user_id)
                     /\ resp' = [op |-> "verify_otp", user |-> user_id,
                                 status |-> "error",
                                 message |-> "OTP expired"]
                ELSE IF stored.otp
                          # SubSeq(otp_entered, 1,
                                   IF Len(otp_entered) < 6
                                   THEN Len(otp_entered) ELSE 6)
                THEN /\ resp' = [op |-> "verify_otp", user |-> user_id,
                                 status |-> "error",
                                 message |-> "Invalid OTP"]
                     /\ UNCHANGED otp_storage
                ELSE /\ otp_storage' =
                          [otp_storage EXCEPT ![user_id].verified = TRUE]
                     /\ resp' = [op |-> "verify_otp", user |-> user_id,
                                 status |-> "success",
                                 message |-> "Phone number verified",
                                 phone |-> stored.phone]
    /\ UNCHANGED <<user_alert_settings, alert_history, now, calls,
                   max_issued_id,
                   chat_vars>>

\* Mutant of verify_otp: the code is compared before the expiry is looked
\* at.
verify_otp_code_first(user_id, otp_entered) ==
    /\ IF user_id \notin DOMAIN otp_storage
       THEN /\ resp' = [op |-> "verify_otp", user |-> user_id,
                        status |-> "error", message |-> "No OTP found"]
            /\ UNCHANGED otp_storage
       ELSE LET stored == otp_storage[user_id]
            IN  IF stored.otp # otp_entered
                THEN /\ resp' = [op |-> "verify_otp", user |-> user_id,
                                 status |-> "error",
                                 message |-> "Invalid OTP"]
                     /\ UNCHANGED otp_storage
                ELSE IF Expired(now, stored)
                THEN /\ otp_storage' = DictDel(otp_storage, user_id)
                     /\ resp' = [op |-> "verify_otp", user |-> user_id,
                                 status |-> "error",
                                 message |-> "OTP expired"]
                ELSE /\ otp_storage' =
                          [otp_storage EXCEPT ![user_id].verified = TRUE]
                     /\ resp' = [op |-> "verify_otp", user |-> user_id,
                                 status |-> "success",
                                 message |-> "Phone number verified",
                                 phone |-> stored.phone]
    /\ UNCHANGED <<user_alert_settings, alert_history, now, calls,
                   max_issued_id,
                   chat_vars>>

\* Mutant of verify_otp: a wrong code removes the record.
verify_otp_lockout(user_id, otp_entered) ==
    /\ IF user_id \notin DOMAIN otp_storage
       THEN /\ resp' = [op |-> "verify_otp", user |-> user_id,
                        status |-> "error", message |-> "No OTP found"]
            /\ UNCHANGED otp_storage
       ELSE LET stored == otp_storage[user_id]
            IN  IF Expired(now, stored)
                THEN /\ otp_storage' = DictDel(otp_storage, user_id)
                     /\ resp' = [op |-> "verify_otp", user |-> user_id,
                                 status |-> "error",
                                 message |-> "OTP expired"]
                ELSE IF stored.otp # otp_entered
                THEN /\ resp' = [op |-> "verify_otp", user |-> user_id,
                                 status |-> "error",
                                 message |-> "Invalid OTP"]
                     /\ otp_storage' = DictDel(otp_storage, user_id)
                ELSE /\ otp_storage' =
                          [otp_storage EXCEPT ![user_id].verified = TRUE]
                     /\ resp' = [op |-> "verify_otp", user |-> user_id,
                                 status |-> "success",
                                 message |-> "Phone number verified",
                                 phone |-> stored.phone]
    /\ UNCHANGED <<user_alert_settings, alert_history, now, calls,
                   max_issued_id,
                   chat_vars>>

verify_otp(user_id, otp_entered) ==
    /\ IF user_id \notin DOMAIN otp_storage
       THEN /\ resp' = [op |-> "verify_otp", user |-> user_id,
                        status |-> "error", message |-> "No OTP found"]
            /\ UNCHANGED otp_storage
       ELSE LET stored == otp_storage[user_id]
            IN  IF Expired(now, stored)
                THEN /\ otp_storage' = DictDel(otp_storage, user_id)
                     /\ resp' = [op |-> "verify_otp", user |-> user_id,
                                 status |-> "error",
                                 message |-> "OTP expired"]
                ELSE IF stored.otp # otp_entered
                THEN /\ resp' = [op |-> "verify_otp", user |-> user_id,
                                 status |-> "error",
                                 message |-> "Invalid OTP"]
                     /\ UNCHANGED otp_storage
                ELSE /\ otp_storage' =
                          [otp_storage EXCEPT ![user_id].verified = TRUE]
                     /\ resp' = [op |-> "verify_otp", user |-> user_id,
                                 status |-> "success",
                                 message |-> "Phone number verified",
                                 phone |-> stored.phone]
    /\ UNCHANGED <<user_alert_settings, alert_history, now, calls,
                   max_issued_id,
                   chat_vars>>

\* Mutant of get_verification_status: the verified flag is not looked at,
\* `if user_id in otp_storage`.
get_verification_status_any_record(user_id) ==
    /\ resp' = IF user_id \in DOMAIN otp_storage
               THEN [op |-> "get_verification_status", user |-> user_id,
                     status |-> "success", verified |-> TRUE,
                     phone |-> otp_storage[user_id].phone]
               ELSE [op |-> "get_verification_status", user |-> user_id,
                     status |-> "success", verified |-> FALSE]
    /\ UNCHANGED <<user_alert_settings, alert_history, otp_storage, now,
                   calls, max_issued_id,
                   chat_vars>>

\* Mutant of get_verification_status: the expiry is looked at, so a
\* verified record is reported only while datetime.now() <= expiry.
get_verification_status_until_expiry(user_id) ==
    /\ resp' = IF /\ user_id \in DOMAIN otp_storage
                  /\ otp_storage[user_id].verified
                  /\ ~Expired(now, otp_storage[user_id])
               THEN [op |-> "get_verification_status", user |-> user_id,
                     status |-> "success", verified |-> TRUE,
                     phone |-> otp_storage[user_id].phone]
               ELSE [op |-> "get_verification_status", user |-> user_id,
                     status |-> "success", verified |-> FALSE]
    /\ UNCHANGED <<user_alert_settings, alert_history, otp_storage, now,
                   calls, max_issued_id,
                   chat_vars>>

get_verification_status(user_id) ==
    /\ resp' = IF user_id \in DOMAIN otp_storage
                  /\ otp_storage[user_id].verified
               THEN [op |-> "get_verification_status", user |-> user_id,
                     status |-> "success", verified |-> TRUE,
                     phone |-> otp_storage[user_id].phone]
               ELSE [op |-> "get_verification_status", user |-> user_id,
                     status |-> "success", verified |-> FALSE]
    /\ UNCHANGED <<user_alert_settings, alert_history, otp_storage, now,
                   calls, max_issued_id,
                   chat_vars>>

-----------------------------------------------------------------------------
(* chat_explanation (main.py:144-217) *)

\* round(x / d) for integers x >= 0, d > 0: Python rounds a tie to the
\* even neighbour.
PyRoundDiv(x, d) ==
    LET q == x \div d
        r == x % d
    IN  IF 2 * r < d THEN q
        ELSE IF 2 * r > d THEN q + 1
        ELSE IF q % 2 = 0 THEN q ELSE q + 1

\* Line 152: the three readings rounded to multiples of 15, 10 and 15; the
\* key is the string of the three numbers joined by "_".
CacheKey(risk_data) ==
    <<PyRoundDiv(risk_data.landslide_risk, 15) * 15,
      PyRoundDiv(risk_data.slope_calculated, 10) * 10,
      PyRoundDiv(risk_data.rainfall_intensity, 15) * 15>>

\* The text of the inference API for a request, after beautify_ai_response.
AiText(risk_data) == [kind |-> "ai", of |-> risk_data]

\* generate_fallback_explanation(landslide, slope, rainfall): a text built
\* from the raw readings of the request.
FallbackText(risk_data) == [kind |-> "fallback", of |-> risk_data]

\* Lines 163-164: the key is cached and its entry is less than 1800
\* seconds old.
CacheFresh(c, key, t) ==
    /\ key \in DOMAIN c.cache
    /\ t - DictGet(c.cache_time, key, 0) < CacheTtl

\* Lines 168-169: time_since_last_call < 5
RateLimited(c, t) == t - c.last_api_call < RateLimit

\* The response {"explanation": text}; `via` and `key` record the branch
\* that produced it and the cache key of the request.
ChatResponse(text, via, key) ==
    [op |-> "chat_explanation", explanation |-> text, via |-> via,
     key |-> key]

\* Mutant of chat_explanation: last_api_call is set after the API has
\* answered, so a call that raises leaves it as it was.
chat_explanation_stamp_on_success(risk_data, outcome) ==
    /\ LET key == CacheKey(risk_data)
           current_time == time_now
       IN  IF CacheFresh(chat, key, current_time)
           THEN /\ chat_resp' = ChatResponse(chat.cache[key], "cache", key)
                /\ UNCHANGED chat
           ELSE IF RateLimited(chat, current_time)
           THEN /\ chat_resp' = ChatResponse(FallbackText(risk_data),
                                             "rate_limit", key)
                /\ UNCHANGED chat
           ELSE LET text == IF outcome = "ok" THEN AiText(risk_data)
                            ELSE FallbackText(risk_data)
                IN  /\ chat' =
                          [cache |-> DictPut(chat.cache, key, text),
                           cache_time |->
                               DictPut(chat.cache_time, key, current_time),
                           last_api_call |->
                               IF outcome = "ok" THEN current_time
                               ELSE chat.last_api_call]
                    /\ chat_resp' =
                          ChatResponse(text,
                                       IF outcome = "ok" THEN "api"
                                       ELSE "api_error", key)
    /\ UNCHANGED <<user_alert_settings, alert_history, otp_storage, now,
                   calls, resp, max_issued_id, time_now>>

\* Lines 144-217. The handler has no suspension point: the API call of
\* line 192 is synchronous, so the whole request is one step. The
\* attributes created on the first request (lines 155-158) are those of
\* Init.
chat_explanation(risk_data, outcome) ==
    /\ LET key == CacheKey(risk_data)
           current_time == time_now
       IN  IF CacheFresh(chat, key, current_time)
           THEN /\ chat_resp' = ChatResponse(chat.cache[key], "cache", key)
                /\ UNCHANGED chat
           ELSE IF RateLimited(chat, current_time)
           THEN /\ chat_resp' = ChatResponse(FallbackText(risk_data),
                                             "rate_limit", key)
                /\ UNCHANGED chat
           ELSE LET text == IF outcome = "ok" THEN AiText(risk_data)
                            ELSE FallbackText(risk_data)
                IN  /\ chat' =
                          [cache |-> DictPut(chat.cache, key, text),
                           cache_time |->
                               DictPut(chat.cache_time, key, current_time),
                           last_api_call |-> current_time]
                    /\ chat_resp' =
                          ChatResponse(text,
                                       IF outcome = "ok" THEN "api"
                                       ELSE "api_error", key)
    /\ UNCHANGED <<user_alert_settings, alert_history, otp_storage, now,
                   calls, resp, max_issued_id, time_now>>

\* time.time() moves on to the instant t.
ChatTick(t) ==
    /\ t > time_now
    /\ time_now' = t
    /\ UNCHANGED <<user_alert_settings, alert_history, otp_storage, now,
                   calls, resp, max_issued_id, chat, chat_resp>>

\* The wall clock advances by d minutes.
Tick(d) ==
    /\ d > 0
    /\ now + d <= MaxNow
    /\ now' = now + d
    /\ UNCHANGED <<user_alert_settings, alert_history, otp_storage, calls,
                   resp, max_issued_id,
                   chat_vars>>

-----------------------------------------------------------------------------
(* Specifications *)

Init ==
    /\ user_alert_settings = EmptyDict
    /\ alert_history = <<>>
    /\ otp_storage = EmptyDict
    /\ now = 0
    /\ calls = [c \in CallIds |-> IdleCall]
    /\ resp = [op |-> "none"]
    /\ max_issued_id = 0
    /\ chat = [cache |-> EmptyDict, cache_time |-> EmptyDict,
               last_api_call |-> 0]
    /\ time_now = ChatStart
    /\ chat_resp = [op |-> "none"]

\* The alert subsystem, one check_alerts call at a time; the other handlers
\* run while it is suspended in a send.
Next ==
    \/ \E u \in Users, s \in SettingsInputs : save_alert_settings(u, s)
    \/ \E u \in Users : get_alert_settings(u)
    \/ \E u \in Users, d \in DataInputs : check_alerts(1, u, d)
    \/ \E o \in EmailOutcomes : send_email_alert(1, EmailResult(o))
    \/ \E o \in SmsOutcomes : send_sms_alert(1, SmsResult(o))
    \/ check_alerts_return(1)
    \/ \E q \in HistoryQueries : get_alert_history(q)
    \/ clear_alert_history

\* The evaluation of the metrics: settings, check_alerts and the history,
\* for users who enable no channel.
NextBands ==
    \/ \E u \in Users, s \in BandsSettings : save_alert_settings(u, s)
    \/ \E u \in Users, d \in BandsData : check_alerts(1, u, d)
    \/ check_alerts_return(1)
    \/ clear_alert_history

\* The dispatch of a call's alerts over the two channels, for one user.
NextNotify ==
    \/ \E s \in NotifySettings : save_alert_settings("u1", s)
    \/ \E d \in NotifyData : check_alerts(1, "u1", d)
    \/ \E o \in EmailOutcomes : send_email_alert(1, EmailResult(o))
    \/ \E o \in SmsOutcomes : send_sms_alert(1, SmsResult(o))
    \/ check_alerts_return(1)
    \/ clear_alert_history

\* Every handler, with the clock.
NextAll ==
    \/ \E u \in AllUsers, s \in AllSettings : save_alert_settings(u, s)
    \/ \E u \in AllUsers : get_alert_settings(u)
    \/ \E u \in AllUsers, d \in AllData : check_alerts(1, u, d)
    \/ \E o \in EmailOutcomes : send_email_alert(1, EmailResult(o))
    \/ \E o \in SmsOutcomes : send_sms_alert(1, SmsResult(o))
    \/ check_alerts_return(1)
    \/ \E q \in AllQueries : get_alert_history(q)
    \/ clear_alert_history
    \/ \E u \in AllUsers, ph \in OtpPhones, n \in OtpDraws, dl \in Deliveries :
          send_verification_otp(u, ph, n, dl)
    \/ \E u \in AllUsers, e \in OtpEntries : verify_otp(u, e)
    \/ \E u \in AllUsers : get_verification_status(u)
    \/ \E d \in TickSteps : Tick(d)

\* The OTP handlers and the clock, for two users.
NextOtp ==
    \/ \E u \in Users, ph \in VerifyPhones, n \in VerifyDraws,
          dl \in Deliveries : send_verification_otp(u, ph, n, dl)
    \/ \E u \in Users, e \in VerifyEntries : verify_otp(u, e)
    \/ \E u \in Users : get_verification_status(u)
    \/ \E d \in VerifyTicks : Tick(d)

\* Two check_alerts calls interleaved at their awaited sends, with the
\* clear of the history.
NextConcurrent ==
    \/ \E s \in ConcurrentSettings : save_alert_settings("u1", s)
    \/ \E c \in CallIds, d \in ConcurrentData : check_alerts(c, "u1", d)
    \/ \E c \in CallIds, o \in EmailOutcomes :
          send_email_alert(c, EmailResult(o))
    \/ \E c \in CallIds, o \in SmsOutcomes :
          send_sms_alert(c, SmsResult(o))
    \/ \E c \in CallIds : check_alerts_return(c)
    \/ clear_alert_history

\* The settings, alert and OTP handlers for two users, with the clock.
NextIsolation ==
    \/ \E u \in Users, s \in IsolationSettings : save_alert_settings(u, s)
    \/ \E u \in Users, d \in IsolationData : check_alerts(1, u, d)
    \/ \E o \in EmailOutcomes : send_email_alert(1, EmailResult(o))
    \/ check_alerts_return(1)
    \/ clear_alert_history
    \/ \E u \in Users, ph \in IsolationPhones, n \in OtpDraws,
          dl \in IsolationDeliveries : send_verification_otp(u, ph, n, dl)
    \/ \E u \in Users, e \in IsolationEntries : verify_otp(u, e)
    \/ \E d \in TickSteps : Tick(d)

\* The explanation endpoint with its clock.
NextChat ==
    \/ \E r \in ChatRequests, o \in ApiOutcomes : chat_explanation(r, o)
    \/ \E t \in ChatTimes : ChatTick(t)

Spec == Init /\ [][Next]_vars

SpecChat == Init /\ [][NextChat]_vars

SpecIsolation == Init /\ [][NextIsolation]_vars

SpecConcurrent == Init /\ [][NextConcurrent]_vars

SpecOtp == Init /\ [][NextOtp]_vars

SpecAll == Init /\ [][NextAll]_vars

SpecBands == Init /\ [][NextBands]_vars

SpecNotify == Init /\ [][NextNotify]_vars

-----------------------------------------------------------------------------
(* Properties *)

\* The number of alerts of `type` in the list `alerts`.
CountType(alerts, type) ==
    Cardinality({i \in 1..Len(alerts) : alerts[i].type = type})

\* A call that has evaluated the metrics for a user with saved settings.
Evaluated(c) == calls[c].pc # "idle" /\ calls[c].configured

\* C1: for a user with saved settings, a check_alerts call produces, for
\* each metric independently, exactly one alert of the metric's type when
\* the submitted value is >= the configured threshold and none when it is
\* below; so the call yields 0 to 3 alerts, at most one per type.
C1_OnePerTriggeredMetric ==
    \A c \in CallIds :
        Evaluated(c) =>
            LET call == calls[c]
                l == CountType(call.alerts, "Landslide")
                f == CountType(call.alerts, "Flood")
                r == CountType(call.alerts, "Heavy Rainfall")
            IN  /\ l = IF call.data.landslide_risk
                          >= call.settings.landslide_threshold
                       THEN 1 ELSE 0
                /\ f = IF call.data.flood_risk
                          >= call.settings.flood_threshold
                       THEN 1 ELSE 0
                /\ r = IF call.data.rainfall
                          >= call.settings.rainfall_threshold
                       THEN 1 ELSE 0
                /\ Len(call.alerts) = l + f + r
                /\ Len(call.alerts) \in 0..3

\* A call with a reading on its threshold (one alert), a reading below its
\* threshold (none) and a reading above (one alert).
C1_Witness ==
    \E c \in CallIds :
        /\ Evaluated(c)
        /\ calls[c].data.landslide_risk > calls[c].settings.landslide_threshold
        /\ calls[c].data.flood_risk < calls[c].settings.flood_threshold
        /\ calls[c].data.rainfall = calls[c].settings.rainfall_threshold
        /\ Len(calls[c].alerts) = 2

\* The band of a value given the band's two lower edges.
Band(v, emergency, warning) ==
    IF v >= emergency THEN "EMERGENCY"
    ELSE IF v >= warning THEN "WARNING" ELSE "WATCH"

\* The level the fixed policy gives an alert.
PolicyLevel(a) ==
    IF a.type = "Landslide" THEN Band(a.value, 85, 70)
    ELSE IF a.type = "Flood" THEN Band(a.value, 80, 60)
    ELSE Band(a.value, 150, 100)

\* Every alert in sight: in the history or held by a call.
AlertsInSight ==
    {alert_history[i] : i \in 1..Len(alert_history)}
    \cup UNION {{calls[c].alerts[i] : i \in 1..Len(calls[c].alerts)} :
                c \in CallIds}

\* C2: the level of every alert check_alerts creates follows the fixed
\* bands, closed on the lower edge: Landslide EMERGENCY from 85, WARNING
\* from 70; Flood EMERGENCY from 80, WARNING from 60; Heavy Rainfall
\* EMERGENCY from 150, WARNING from 100; WATCH below.
C2_LevelFollowsBands ==
    \A a \in AlertsInSight :
        /\ a.type \in {"Landslide", "Flood", "Heavy Rainfall"}
        /\ a.level = PolicyLevel(a)

\* One call's alerts hold a Flood alert on the EMERGENCY edge (80), and the
\* history holds alerts of every level.
C2_Witness ==
    /\ \E c \in CallIds : \E i \in 1..Len(calls[c].alerts) :
          /\ calls[c].alerts[i].type = "Flood"
          /\ calls[c].alerts[i].value = 80
          /\ calls[c].alerts[i].level = "EMERGENCY"
    /\ \A lv \in {"WATCH", "WARNING", "EMERGENCY"} :
          \E i \in 1..Len(alert_history) : alert_history[i].level = lv

\* C3: the level of an alert depends on its type and value only, never on
\* the threshold of the user it was created for: alerts of the same type
\* and value have the same level whatever their thresholds (Landslide 72
\* under threshold 10 is WARNING, Landslide 12 under threshold 10 is WATCH).
C3_LevelIgnoresThreshold ==
    /\ \A a, b \in AlertsInSight :
          (a.type = b.type /\ a.value = b.value) => a.level = b.level
    /\ \A a \in AlertsInSight :
          (a.type = "Landslide" /\ a.threshold = 10) =>
              /\ a.value = 72 => a.level = "WARNING"
              /\ a.value = 12 => a.level = "WATCH"

\* Two users with different Landslide thresholds, both below the same
\* submitted value 72: the alert of one is in the last response, the alert
\* of the other is held by the call in flight.
C3_Witness ==
    \E c \in CallIds :
        /\ Evaluated(c)
        /\ resp.op = "check_alerts"
        /\ resp.user # calls[c].user
        /\ \E i \in 1..Len(resp.alerts), j \in 1..Len(calls[c].alerts) :
              /\ resp.alerts[i].type = "Landslide"
              /\ calls[c].alerts[j].type = "Landslide"
              /\ resp.alerts[i].value = 72
              /\ calls[c].alerts[j].value = 72
              /\ resp.alerts[i].threshold = 10
              /\ calls[c].alerts[j].threshold = 70
              /\ resp.alerts[i].level = calls[c].alerts[j].level

\* The step in which call c runs lines 784-860 of check_alerts.
BeginStep(c) == calls[c].pc = "idle" /\ calls'[c].pc # "idle"

\* The step in which call c returns its response.
ReturnStep(c) == calls[c].pc = "return" /\ calls'[c].pc = "idle"

Tagged(r) == "message" \in DOMAIN r /\ r.message = "No settings configured"

AllBelow(data, settings) ==
    /\ data.landslide_risk < settings.landslide_threshold
    /\ data.flood_risk < settings.flood_threshold
    /\ data.rainfall < settings.rainfall_threshold

\* C4: check_alerts returns the empty alert list tagged "No settings
\* configured", appends nothing to the history and attempts no send, exactly
\* when no settings were ever saved for the user; for a configured user
\* whose readings are all below the thresholds it returns an empty list
\* with email_sent = sms_sent = false and no tag; and saved settings are
\* never removed, so the tag cannot come back for that user.
C4_NotConfiguredTag ==
    [][/\ \A u \in DOMAIN user_alert_settings :
             u \in DOMAIN user_alert_settings'
       /\ \A c \in CallIds :
             /\ BeginStep(c) =>
                   /\ calls'[c].configured
                        = (calls'[c].user \in DOMAIN user_alert_settings)
                   /\ ~calls'[c].configured =>
                         /\ alert_history' = alert_history
                         /\ calls'[c].pc = "return"
                         /\ calls'[c].alerts = <<>>
                         /\ calls'[c].log = <<>>
             /\ ReturnStep(c) =>
                   /\ resp'.user = calls[c].user
                   /\ Tagged(resp') = ~calls[c].configured
                   /\ Tagged(resp') =>
                         /\ resp'.alerts = <<>>
                         /\ calls[c].log = <<>>
                   /\ (/\ calls[c].configured
                       /\ AllBelow(calls[c].data, calls[c].settings)) =>
                         /\ resp'.alerts = <<>>
                         /\ "message" \notin DOMAIN resp'
                         /\ resp'.notifications
                              = [email_sent |-> FALSE, sms_sent |-> FALSE]
      ]_vars

\* The last response is the tagged one for a user without settings, while
\* a call for a configured user is about to return no alert.
C4_Witness ==
    /\ resp.op = "check_alerts"
    /\ Tagged(resp)
    /\ resp.user \notin DOMAIN user_alert_settings
    /\ \E c \in CallIds :
          /\ calls[c].pc = "return"
          /\ calls[c].configured
          /\ calls[c].user # resp.user
          /\ AllBelow(calls[c].data, calls[c].settings)

TypeRank(type) ==
    IF type = "Landslide" THEN 1 ELSE IF type = "Flood" THEN 2 ELSE 3

\* C5: a check_alerts call that returns k alerts appends exactly k records
\* to the history: right after its alert-construction step the history is
\* the history before it followed by the call's alerts, in the order
\* Landslide, Flood, Heavy Rainfall; the rest of the call leaves the history
\* alone and returns those alerts.
C5_HistoryGrowsByReturned ==
    [][\A c \in CallIds :
          /\ BeginStep(c) =>
                LET k == Len(calls'[c].alerts)
                IN  /\ alert_history' = alert_history \o calls'[c].alerts
                    /\ Len(alert_history') = Len(alert_history) + k
                    /\ \A i, j \in 1..k :
                          i < j => TypeRank(calls'[c].alerts[i].type)
                                     < TypeRank(calls'[c].alerts[j].type)
          /\ (calls[c].pc # "idle" /\ calls'[c] # calls[c]) =>
                alert_history' = alert_history
          /\ (ReturnStep(c) /\ calls[c].configured) =>
                resp'.alerts = calls[c].alerts
      ]_vars

\* A call holds two alerts, which are the last two records of a history
\* that held two records before the call.
C5_Witness ==
    \E c \in CallIds :
        /\ calls[c].pc # "idle"
        /\ Len(calls[c].alerts) = 2
        /\ calls[c].alerts[1].type = "Landslide"
        /\ calls[c].alerts[2].type = "Heavy Rainfall"
        /\ Len(alert_history) = 4
        /\ SubSeq(alert_history, 3, 4) = calls[c].alerts

\* The handlers that are neither check_alerts nor clear_alert_history.
OtherOps ==
    {"save_alert_settings", "get_alert_settings", "get_alert_history",
     "send_verification_otp", "verify_otp", "get_verification_status"}

\* C6: the history changes in two ways only: the alert-construction step
\* of check_alerts extends it by a suffix, every existing record keeping
\* its content and position, and clear_alert_history resets it to the empty
\* list; the settings handlers, the history read and the OTP handlers leave
\* it unchanged.
C6_HistoryAppendOrClear ==
    [][/\ alert_history' # alert_history =>
             \/ /\ resp'.op = "clear_alert_history"
                /\ alert_history' = <<>>
             \/ /\ \E c \in CallIds : BeginStep(c)
                /\ Len(alert_history') > Len(alert_history)
                /\ SubSeq(alert_history', 1, Len(alert_history))
                     = alert_history
                /\ UNCHANGED resp
       /\ (resp' # resp /\ resp'.op \in OtherOps) =>
             alert_history' = alert_history
       /\ (resp' # resp /\ resp'.op = "clear_alert_history") =>
             alert_history' = <<>>
      ]_vars

\* The history was cleared wholesale after at least two alerts had been
\* created, in a state where an OTP record is stored.
C6_Witness ==
    /\ resp.op = "clear_alert_history"
    /\ alert_history = <<>>
    /\ max_issued_id >= 2
    /\ "u1" \in DOMAIN otp_storage

\* C7 (as claimed): get_alert_history with limit N returns at most N alerts
\* for every N >= 0, N = 0 included.
C7_AtMostLimit ==
    resp.op = "get_alert_history" =>
        (LimitOf(resp.query) >= 0 =>
            Len(resp.alerts) <= LimitOf(resp.query))

\* The last min(n, length) records of h, oldest first.
LastN(h, n) ==
    LET k == Min(n, Len(h))
    IN  [i \in 1..k |-> h[Len(h) - k + i]]

\* C8: for every limit N >= 1, get_alert_history returns exactly the last
\* min(N, length) records of the history in insertion order, the empty list
\* when the history is empty; a request without a limit uses 50.
C8_LastNInOrder ==
    [][(resp' # resp /\ resp'.op = "get_alert_history") =>
          /\ resp'.query = <<>> => resp'.alerts = LastN(alert_history, 50)
          /\ (resp'.query # <<>> /\ resp'.query[1] >= 1) =>
                resp'.alerts = LastN(alert_history, resp'.query[1])
          /\ alert_history = <<>> => resp'.alerts = <<>>
      ]_vars

\* A read with limit 2 of a history of at least three records returned its
\* last two records, oldest first.
C8_Witness ==
    /\ resp.op = "get_alert_history"
    /\ resp.query = <<2>>
    /\ Len(alert_history) >= 3
    /\ resp.alerts = <<alert_history[Len(alert_history) - 1],
                       alert_history[Len(alert_history)]>>

\* C9 (as claimed): each newly created alert gets an id strictly greater
\* than the id of every alert created before it in the process lifetime.
C9_IdsIncreaseForever ==
    [][\A c \in CallIds :
          BeginStep(c) =>
              \A i \in 1..Len(calls'[c].alerts) :
                  calls'[c].alerts[i].id > max_issued_id
      ]_vars

\* C9 (amended): each newly created alert gets an id strictly greater than
\* the id of every alert created since the most recent clear_alert_history,
\* that is of every record then in the history, and than the ids of the
\* alerts created before it in the same call.
C9_IdsIncreaseSinceClear ==
    [][\A c \in CallIds :
          BeginStep(c) =>
              \A i \in 1..Len(calls'[c].alerts) :
                  /\ \A j \in 1..Len(alert_history) :
                        calls'[c].alerts[i].id > alert_history[j].id
                  /\ \A j \in 1..(i - 1) :
                        calls'[c].alerts[i].id > calls'[c].alerts[j].id
      ]_vars

\* A call created alerts on top of a history that already held records.
C9_Witness ==
    \E c \in CallIds :
        /\ calls[c].pc # "idle"
        /\ Len(calls[c].alerts) = 2
        /\ Len(alert_history) = 4
        /\ calls[c].alerts[2].id = 4
        /\ max_issued_id = 4

\* Some send of `ch` in the log succeeded.
Delivered(log, ch) ==
    \E i \in 1..Len(log) : log[i].ch = ch /\ log[i].ok

\* C10: in the response of a check_alerts call email_sent is true iff at
\* least one alert of the call was delivered by the email channel, and
\* sms_sent is true iff at least one was delivered by the SMS channel,
\* each flag computed from its own channel alone.
C10_FlagsMeanAnyDelivered ==
    [][\A c \in CallIds :
          (ReturnStep(c) /\ calls[c].configured) =>
              /\ resp'.notifications.email_sent
                   = Delivered(calls[c].log, "email")
              /\ resp'.notifications.sms_sent
                   = Delivered(calls[c].log, "sms")
      ]_vars

\* A call about to return after three email sends of which only the first
\* succeeded and three SMS sends that all failed.
C10_Witness ==
    \E c \in CallIds :
        /\ calls[c].pc = "return"
        /\ Len(calls[c].log) = 6
        /\ calls[c].log[1].ch = "email" /\ calls[c].log[1].ok
        /\ \A i \in 2..6 : ~calls[c].log[i].ok
        /\ calls[c].email_sent
        /\ ~calls[c].sms_sent

\* The number of sends on channel `ch` recorded in the log.
SendsOn(log, ch) == Cardinality({i \in 1..Len(log) : log[i].ch = ch})

\* The number of sends a call owes a channel with this flag and contact.
Owed(flag, contact, alerts) ==
    IF flag /\ contact # "" THEN Len(alerts) ELSE 0

\* C11: within one check_alerts call the number of send attempts on a
\* channel is the number of alerts the call created when the channel's
\* enable flag is true and its contact field is non-empty, and zero
\* otherwise; no alert is sent twice on a channel, so a failed send is never
\* retried within the call.
C11_OneAttemptPerAlert ==
    \A c \in CallIds :
        LET call == calls[c]
            log == call.log
        IN  /\ ~Evaluated(c) => log = <<>>
            /\ Evaluated(c) =>
                  LET e == Owed(call.settings.enable_email,
                                call.settings.email, call.alerts)
                      s == Owed(call.settings.enable_sms,
                                call.settings.phone, call.alerts)
                  IN  /\ SendsOn(log, "email") <= e
                      /\ SendsOn(log, "sms") <= s
                      /\ call.pc = "return" =>
                            /\ SendsOn(log, "email") = e
                            /\ SendsOn(log, "sms") = s
                      /\ \A i \in 1..Len(log) :
                            /\ log[i].alert \in 1..Len(call.alerts)
                            /\ log[i].to = IF log[i].ch = "email"
                                           THEN call.settings.email
                                           ELSE call.settings.phone
                      /\ \A i, j \in 1..Len(log) :
                            (i < j /\ log[i].ch = log[j].ch) =>
                                log[i].alert < log[j].alert

\* A call about to return three alerts: email is enabled with an address,
\* SMS is disabled although a phone is saved; the email of the first alert
\* failed and was followed by the emails of the second and third alert, and
\* no SMS was attempted.
C11_Witness ==
    \E c \in CallIds :
        /\ calls[c].pc = "return"
        /\ Len(calls[c].alerts) = 3
        /\ calls[c].settings.enable_email /\ calls[c].settings.email # ""
        /\ ~calls[c].settings.enable_sms /\ calls[c].settings.phone # ""
        /\ Len(calls[c].log) = 3
        /\ \A i \in 1..3 : /\ calls[c].log[i].ch = "email"
                           /\ calls[c].log[i].alert = i
        /\ ~calls[c].log[1].ok

\* The step in which the awaited send of channel `ch` of call c returns.
SendStep(c, ch) == calls[c].pc = ch /\ calls'[c] # calls[c]

\* The result of the send that returns in this step.
SendResult(c) == calls'[c].log[Len(calls'[c].log)].ok

\* C12: channel failures are isolated and collapsed to false. With both
\* channels eligible, the email send of an alert is followed by the SMS send
\* of the same alert whatever the email send returned, and the SMS send of
\* an alert is followed by the email send of the next alert whatever the SMS
\* send returned. A call whose emails all failed and one of whose SMS
\* succeeded reports email_sent = false and sms_sent = true (and the other
\* way round), and for every combination of outcomes the call returns
\* status success with the full list of the alerts it created.
C12_FailuresIsolated ==
    [][\A c \in CallIds :
          LET call == calls[c]
              both == /\ call.settings.enable_email
                      /\ call.settings.email # ""
                      /\ call.settings.enable_sms
                      /\ call.settings.phone # ""
          IN  /\ (SendStep(c, "email") /\ both) =>
                    /\ calls'[c].pc = "sms"
                    /\ calls'[c].i = call.i
                    /\ calls'[c].email_sent = (call.email_sent \/ SendResult(c))
                    /\ calls'[c].sms_sent = call.sms_sent
              /\ (SendStep(c, "sms") /\ both) =>
                    /\ calls'[c].pc = IF call.i < Len(call.alerts)
                                      THEN "email" ELSE "return"
                    /\ calls'[c].i = call.i + 1
                    /\ calls'[c].sms_sent = (call.sms_sent \/ SendResult(c))
                    /\ calls'[c].email_sent = call.email_sent
              /\ (call.pc # "idle" /\ calls'[c].pc # "idle") =>
                    calls'[c].alerts = call.alerts
              /\ (ReturnStep(c) /\ call.configured) =>
                    /\ resp'.status = "success"
                    /\ resp'.alerts = call.alerts
                    /\ both => Len(call.log) = 2 * Len(call.alerts)
                    /\ (~Delivered(call.log, "email")
                        /\ Delivered(call.log, "sms")) =>
                          resp'.notifications
                            = [email_sent |-> FALSE, sms_sent |-> TRUE]
                    /\ (Delivered(call.log, "email")
                        /\ ~Delivered(call.log, "sms")) =>
                          resp'.notifications
                            = [email_sent |-> TRUE, sms_sent |-> FALSE]
      ]_vars

\* A call about to return three alerts with both channels eligible: every
\* email failed, each was followed by the SMS of the same alert, and every
\* SMS succeeded.
C12_Witness ==
    \E c \in CallIds :
        /\ calls[c].pc = "return"
        /\ Len(calls[c].alerts) = 3
        /\ Len(calls[c].log) = 6
        /\ \A k \in 1..3 :
              /\ calls[c].log[2 * k - 1]
                   = [ch |-> "email", alert |-> k,
                      to |-> calls[c].settings.email, ok |-> FALSE]
              /\ calls[c].log[2 * k]
                   = [ch |-> "sms", alert |-> k,
                      to |-> calls[c].settings.phone, ok |-> TRUE]
        /\ ~calls[c].email_sent
        /\ calls[c].sms_sent

\* C13: get_alert_settings for a user without saved settings never fails:
\* it returns the defaults (empty email and phone, thresholds 70 / 60 / 100,
\* both channels disabled, empty location, no coordinates) and creates no
\* settings entry, so a later check_alerts for the user is still treated as
\* not configured.
C13_DefaultsWithoutEntry ==
    [][/\ \A u \in Users :
             (get_alert_settings(u) /\ u \notin DOMAIN user_alert_settings) =>
                 /\ resp'.op = "get_alert_settings"
                 /\ resp'.status = "success"
                 /\ resp'.settings =
                      [email |-> "", phone |-> "",
                       landslide_threshold |-> 70, flood_threshold |-> 60,
                       rainfall_threshold |-> 100,
                       enable_email |-> FALSE, enable_sms |-> FALSE,
                       alert_location |-> "",
                       alert_lat |-> NoValue, alert_lng |-> NoValue]
                 /\ user_alert_settings' = user_alert_settings
                 /\ u \notin DOMAIN user_alert_settings'
       /\ \A c \in CallIds :
             /\ (/\ BeginStep(c)
                 /\ calls'[c].user \notin DOMAIN user_alert_settings) =>
                   /\ ~calls'[c].configured
                   /\ calls'[c].pc = "return"
                   /\ alert_history' = alert_history
             /\ (ReturnStep(c) /\ ~calls[c].configured) =>
                   /\ Tagged(resp')
                   /\ resp'.alerts = <<>>
      ]_vars

\* The last response is the defaults returned to a user who has no settings
\* entry, and a check_alerts call of that user has found no settings, while
\* the other user has an entry.
C13_Witness ==
    /\ resp.op = "get_alert_settings"
    /\ resp.user \notin DOMAIN user_alert_settings
    /\ resp.settings.landslide_threshold = 70
    /\ resp.settings.email = ""
    /\ DOMAIN user_alert_settings # {}
    /\ \E c \in CallIds :
          /\ calls[c].pc = "return"
          /\ calls[c].user = resp.user
          /\ ~calls[c].configured

\* C14: settings round-trip. save_alert_settings(u, s) makes s the whole
\* record of u, whatever the record was before, and touches no other user;
\* the store changes in no other step, and get_alert_settings(u) returns the
\* record of u, so it returns s until the next save for u. check_alerts for
\* u works on the record stored when the call starts: its alerts carry that
\* record's thresholds, and the call keeps that record for its sends even
\* when a save for u completes while it is suspended.
C14_SettingsRoundTrip ==
    [][/\ \A u \in Users, s \in SettingsInputs :
             save_alert_settings(u, s) =>
                 /\ u \in DOMAIN user_alert_settings'
                 /\ user_alert_settings'[u] = s
                 /\ DOMAIN user_alert_settings'
                      = DOMAIN user_alert_settings \cup {u}
                 /\ \A v \in DOMAIN user_alert_settings \ {u} :
                       user_alert_settings'[v] = user_alert_settings[v]
       /\ user_alert_settings' # user_alert_settings =>
             /\ resp'.op = "save_alert_settings"
             /\ \A v \in DOMAIN user_alert_settings \ {resp'.user} :
                   user_alert_settings'[v] = user_alert_settings[v]
       /\ \A u \in DOMAIN user_alert_settings :
             get_alert_settings(u) =>
                 /\ resp'.settings = user_alert_settings[u]
                 /\ user_alert_settings' = user_alert_settings
       /\ \A c \in CallIds :
             /\ (BeginStep(c) /\ calls'[c].configured) =>
                   LET saved == user_alert_settings[calls'[c].user]
                   IN  /\ calls'[c].settings = saved
                       /\ \A i \in 1..Len(calls'[c].alerts) :
                             calls'[c].alerts[i].threshold \in
                                 {saved.landslide_threshold,
                                  saved.flood_threshold,
                                  saved.rainfall_threshold}
             /\ (calls[c].pc # "idle" /\ calls'[c].pc # "idle") =>
                   calls'[c].settings = calls[c].settings
      ]_vars

\* The last response returned to a user the record of their second save,
\* which has no phone, while a check_alerts call of that user that started
\* after their first save is suspended with the first record, which has one.
C14_Witness ==
    \E c \in CallIds :
        /\ calls[c].pc \in {"email", "sms"}
        /\ calls[c].log # <<>>
        /\ resp.op = "get_alert_settings"
        /\ resp.user = calls[c].user
        /\ resp.user \in DOMAIN user_alert_settings
        /\ resp.settings = user_alert_settings[resp.user]
        /\ resp.settings = MkSettings("b@x.in", "", 70, 60, 100, TRUE, FALSE)
        /\ calls[c].settings
             = MkSettings("a@x.in", "9163615366", 10, 10, 10, TRUE, TRUE)

\* The responses of verify_otp.
IsNotFound(r) ==
    r.op = "verify_otp" /\ r.status = "error" /\ r.message = "No OTP found"

IsExpired(r) ==
    r.op = "verify_otp" /\ r.status = "error" /\ r.message = "OTP expired"

IsMismatch(r) ==
    r.op = "verify_otp" /\ r.status = "error" /\ r.message = "Invalid OTP"

IsVerified(r) ==
    r.op = "verify_otp" /\ r.status = "success"

\* C15: verify_otp for a user id that has no OTP record, because none was
\* ever issued or because it was deleted after expiry, returns the NotFound
\* error ("No OTP found") and leaves the OTP store unchanged; in particular
\* the verify that directly follows an Expired answer is answered NotFound.
C15_NotFoundWithoutRecord ==
    [][\A u \in Users, e \in VerifyEntries :
          /\ (verify_otp(u, e) /\ u \notin DOMAIN otp_storage) =>
                /\ IsNotFound(resp')
                /\ resp'.user = u
                /\ otp_storage' = otp_storage
          /\ (verify_otp(u, e) /\ IsExpired(resp) /\ resp.user = u) =>
                /\ IsNotFound(resp')
                /\ otp_storage' = otp_storage
          /\ (verify_otp(u, e) /\ IsNotFound(resp')) =>
                u \notin DOMAIN otp_storage
      ]_vars

\* After the clock passed the expiry of every record issued at time 0, the
\* last response is NotFound for a user who has no record, and the record of
\* the other user is in the store.
C15_Witness ==
    /\ IsNotFound(resp)
    /\ resp.user \notin DOMAIN otp_storage
    /\ DOMAIN otp_storage = Users \ {resp.user}
    /\ now > OtpTtl

\* C16: verify_otp with the code of the user's current record at any time
\* now <= expiry, now = expiry included, returns success together with the
\* record's phone, sets verified to true and leaves the record in the store
\* with its phone, code and expiry unchanged.
C16_VerifyUntilExpiry ==
    [][\A u \in Users, e \in VerifyEntries :
          (/\ verify_otp(u, e)
           /\ u \in DOMAIN otp_storage
           /\ now <= otp_storage[u].expiry
           /\ e = otp_storage[u].otp) =>
              /\ IsVerified(resp')
              /\ resp'.user = u
              /\ resp'.phone = otp_storage[u].phone
              /\ DOMAIN otp_storage' = DOMAIN otp_storage
              /\ otp_storage'[u] = [phone |-> otp_storage[u].phone,
                                    otp |-> otp_storage[u].otp,
                                    expiry |-> otp_storage[u].expiry,
                                    verified |-> TRUE]
              /\ \A v \in DOMAIN otp_storage \ {u} :
                    otp_storage'[v] = otp_storage[v]
      ]_vars

\* The last response is the success of a verify at the very minute the
\* record expires: the record of the other user was issued in this minute,
\* so the verify, which returned after that issue, ran in this minute too.
C16_Witness ==
    \E u \in Users, v \in Users :
        /\ u # v
        /\ u \in DOMAIN otp_storage /\ v \in DOMAIN otp_storage
        /\ IsVerified(resp)
        /\ resp.user = u
        /\ resp.phone = otp_storage[u].phone
        /\ otp_storage[u].verified
        /\ now = otp_storage[u].expiry
        /\ otp_storage[v].expiry = now + OtpTtl

\* C17: verify_otp with the correct code when now > expiry returns the
\* Expired error and deletes the user's record, which puts the user back in
\* the state of one who was never issued a code: a verify directly after it
\* returns NotFound, and a send_verification_otp after it stores a fresh,
\* unverified record that is not expired and holds the newly drawn code.
C17_ExpiredDeletes ==
    [][\A u \in Users :
          /\ \A e \in VerifyEntries :
                /\ (/\ u \in DOMAIN otp_storage
                    /\ now > otp_storage[u].expiry
                    /\ e = otp_storage[u].otp
                    /\ verify_otp(u, e)) =>
                      /\ IsExpired(resp')
                      /\ resp'.user = u
                      /\ DOMAIN otp_storage' = DOMAIN otp_storage \ {u}
                      /\ \A v \in DOMAIN otp_storage' :
                            otp_storage'[v] = otp_storage[v]
                /\ (IsExpired(resp) /\ resp.user = u /\ verify_otp(u, e)) =>
                      IsNotFound(resp')
          /\ \A ph \in VerifyPhones \ {""}, n \in VerifyDraws,
                dl \in Deliveries :
                (/\ u \notin DOMAIN otp_storage
                 /\ send_verification_otp(u, ph, n, dl)) =>
                    /\ u \in DOMAIN otp_storage'
                    /\ otp_storage'[u].otp = PyStr(n)
                    /\ ~otp_storage'[u].verified
                    /\ now <= otp_storage'[u].expiry
      ]_vars

\* The last response is Expired for a user whose record is gone, after the
\* clock passed the lifetime of a record, and the record of the other user
\* is still stored.
C17_Witness ==
    /\ IsExpired(resp)
    /\ resp.user \notin DOMAIN otp_storage
    /\ DOMAIN otp_storage = Users \ {resp.user}
    /\ now > OtpTtl

\* C18: verify_otp with a code that differs from the stored one, compared
\* as strings without normalisation, while the record is not expired returns
\* the Mismatch error and leaves the record unchanged: it is not deleted and
\* its verified flag keeps its value. Wrong attempts are not counted: after
\* any number of them a further wrong code is answered Mismatch again and
\* the correct code still verifies.
C18_MismatchKeepsRecord ==
    [][\A u \in DOMAIN otp_storage, e \in VerifyEntries :
          now <= otp_storage[u].expiry =>
              /\ (e # otp_storage[u].otp /\ verify_otp(u, e)) =>
                    /\ IsMismatch(resp')
                    /\ resp'.user = u
                    /\ otp_storage' = otp_storage
              /\ (/\ IsMismatch(resp) /\ resp.user = u
                  /\ e = otp_storage[u].otp
                  /\ verify_otp(u, e)) =>
                    /\ IsVerified(resp')
                    /\ otp_storage'[u].verified
      ]_vars

\* The last response is Mismatch for a user whose record is in the store,
\* not expired and verified: the wrong code came after a successful verify
\* and the flag kept its value.
C18_Witness ==
    /\ IsMismatch(resp)
    /\ resp.user \in DOMAIN otp_storage
    /\ otp_storage[resp.user].verified
    /\ now <= otp_storage[resp.user].expiry
    /\ now > 0

\* A step in which send_verification_otp answers user u.
IssueStep(u) == resp'.op = "send_verification_otp" /\ resp'.user = u

\* The six decimal digits of a number of the range the code is drawn from.
SixDigits(n) ==
    <<n \div 100000, (n \div 10000) % 10, (n \div 1000) % 10,
      (n \div 100) % 10, (n \div 10) % 10, n % 10>>

\* C19: the OTP store holds at most one record per user id, and every
\* send_verification_otp with a non-empty phone, whatever the provider does
\* with the message, replaces the user's record by a new one holding the new
\* phone, the newly drawn code, expiry = now + 10 minutes and verified =
\* false, whatever the record was before (a verified one included), and
\* touches no other user. Nothing of the previous record is kept, so a
\* verify succeeds with the code of the current record only.
C19_IssueReplaces ==
    [][/\ DOMAIN otp_storage' \subseteq Users
       /\ \A u \in Users :
             /\ \A ph \in VerifyPhones \ {""}, n \in VerifyDraws,
                   dl \in Deliveries :
                   (IssueStep(u) /\ send_verification_otp(u, ph, n, dl)) =>
                       /\ DOMAIN otp_storage' = DOMAIN otp_storage \cup {u}
                       /\ otp_storage'[u] = [phone |-> ph,
                                             otp |-> SixDigits(n),
                                             expiry |-> now + 10,
                                             verified |-> FALSE]
                       /\ \A v \in DOMAIN otp_storage \ {u} :
                             otp_storage'[v] = otp_storage[v]
             /\ \A e \in VerifyEntries :
                   (IsVerified(resp') /\ resp'.user = u /\ verify_otp(u, e)) =>
                       /\ u \in DOMAIN otp_storage
                       /\ e = otp_storage[u].otp
      ]_vars

\* The last response is the error of an issue whose message the provider
\* failed to send, some minutes after start: the user's record is the new
\* one, issued in this minute with the second phone and the code 999999 and
\* unverified, and the verified record of the other user is untouched.
C19_Witness ==
    \E u \in Users, v \in Users :
        /\ u # v
        /\ resp.op = "send_verification_otp"
        /\ resp.user = u
        /\ resp.status = "error"
        /\ now > 0
        /\ u \in DOMAIN otp_storage /\ v \in DOMAIN otp_storage
        /\ otp_storage[u] = [phone |-> "+919000000001",
                             otp |-> <<9, 9, 9, 9, 9, 9>>,
                             expiry |-> now + 10, verified |-> FALSE]
        /\ otp_storage[v].verified
        /\ otp_storage[v].expiry < now + 10

\* C20: send_verification_otp with an empty or missing phone returns the
\* "Phone number is required" error result, draws no code and leaves the OTP
\* store unchanged, so a record of that user, verified or not, survives;
\* with a non-empty phone and an unconfigured SMS provider it returns
\* another error result, "SMS service not configured".
C20_PhoneRequired ==
    [][\A u \in Users, n \in VerifyDraws, dl \in Deliveries :
          /\ (IssueStep(u) /\ send_verification_otp(u, "", n, dl)) =>
                /\ resp' = [op |-> "send_verification_otp", user |-> u,
                            status |-> "error",
                            message |-> "Phone number is required"]
                /\ otp_storage' = otp_storage
          /\ \A ph \in VerifyPhones \ {""} :
                (/\ IssueStep(u)
                 /\ send_verification_otp(u, ph, n, "unconfigured")) =>
                    /\ resp'.status = "error"
                    /\ resp'.message = "SMS service not configured"
                    /\ resp'.message # "Phone number is required"
      ]_vars

\* The last response is "Phone number is required" for a user whose
\* verified record is still in the store.
C20_Witness ==
    /\ resp.op = "send_verification_otp"
    /\ resp.status = "error"
    /\ resp.message = "Phone number is required"
    /\ resp.user \in DOMAIN otp_storage
    /\ otp_storage[resp.user].verified

\* A step in which get_verification_status answers user u.
StatusStep(u) == resp'.op = "get_verification_status" /\ resp'.user = u

\* C21: get_verification_status is a pure read that never errors: it
\* changes no state, it reports verified = true with the record's phone
\* exactly when the user has a record whose verified flag is true, and it
\* reports verified = false with no phone both when the user has no record
\* and when the record is not verified.
C21_StatusIsPureRead ==
    [][\A u \in Users :
          (StatusStep(u) /\ get_verification_status(u)) =>
              /\ UNCHANGED <<user_alert_settings, alert_history, otp_storage,
                             now, calls, max_issued_id,
                   chat_vars>>
              /\ resp'.status = "success"
              /\ resp'.verified
                   = (u \in DOMAIN otp_storage /\ otp_storage[u].verified)
              /\ resp'.verified =>
                    /\ "phone" \in DOMAIN resp'
                    /\ resp'.phone = otp_storage[u].phone
              /\ ~resp'.verified => "phone" \notin DOMAIN resp'
      ]_vars

\* The last response reports verified = false without a phone to a user
\* whose record is stored but not verified, while the record of the other
\* user is verified.
C21_Witness ==
    \E v \in Users :
        /\ resp.op = "get_verification_status"
        /\ ~resp.verified
        /\ "phone" \notin DOMAIN resp
        /\ resp.user \in DOMAIN otp_storage
        /\ ~otp_storage[resp.user].verified
        /\ v # resp.user
        /\ v \in DOMAIN otp_storage
        /\ otp_storage[v].verified

\* C22: verify_otp is idempotent on success: while the user's record is
\* verified and not expired, a verify with the record's code succeeds again
\* and changes nothing in the store, whatever was answered in between. A
\* successful verify leaves the record in the store with the code it was
\* given; the record's code, phone and expiry change only when a new code is
\* issued for that user, and the record goes only when a verify finds
\* now > expiry.
C22_VerifyAgainSucceeds ==
    [][\A u \in DOMAIN otp_storage :
          /\ \A e \in VerifyEntries :
                (/\ otp_storage[u].verified
                 /\ now <= otp_storage[u].expiry
                 /\ e = otp_storage[u].otp
                 /\ verify_otp(u, e)) =>
                    /\ IsVerified(resp')
                    /\ resp'.user = u
                    /\ resp'.phone = otp_storage[u].phone
                    /\ otp_storage' = otp_storage
          /\ \A e \in VerifyEntries :
                (IsVerified(resp') /\ resp'.user = u /\ verify_otp(u, e)) =>
                    /\ u \in DOMAIN otp_storage'
                    /\ otp_storage'[u].verified
                    /\ otp_storage'[u].otp = e
                    /\ otp_storage'[u].expiry = otp_storage[u].expiry
          /\ (otp_storage[u].verified /\ u \notin DOMAIN otp_storage') =>
                /\ IsExpired(resp')
                /\ resp'.user = u
                /\ now > otp_storage[u].expiry
          /\ (/\ otp_storage[u].verified
              /\ u \in DOMAIN otp_storage'
              /\ otp_storage'[u] # otp_storage[u]) =>
                IssueStep(u)
      ]_vars

\* The last response is the success of a verify for a user whose record
\* was issued some minutes ago and is verified; the verify ran in this
\* minute, after the record of the other user was issued and verified in
\* this minute.
C22_Witness ==
    \E u \in Users, v \in Users :
        /\ u # v
        /\ IsVerified(resp)
        /\ resp.user = u
        /\ u \in DOMAIN otp_storage /\ v \in DOMAIN otp_storage
        /\ otp_storage[u].verified
        /\ otp_storage[v].verified
        /\ otp_storage[u].expiry < otp_storage[v].expiry
        /\ otp_storage[v].expiry = now + OtpTtl

\* int(code) of a six-character decimal string: the one number n for which
\* str(n), padded or not, can read as that string.
DecimalValue(code) ==
    code[1] * 100000 + code[2] * 10000 + code[3] * 1000
      + code[4] * 100 + code[5] * 10 + code[6]

\* A step in which send_verification_otp stores `code` for some user.
StoresCode(code) ==
    \E u \in Users, dl \in Deliveries :
        /\ send_verification_otp(u, "9163615366", DecimalValue(code), dl)
        /\ otp_storage'[u].otp = code

\* C23 (as claimed): the codes send_verification_otp can generate are the
\* six-character decimal strings 000000 to 999999: every stored code has
\* exactly six digits, and a code with leading zeros such as 000123 is a
\* possible outcome, as are 100000 and 999999.
C23_AnySixDigitString ==
    /\ \A u \in DOMAIN otp_storage :
          /\ Len(otp_storage[u].otp) = 6
          /\ \A i \in 1..6 : otp_storage[u].otp[i] \in 0..9
    /\ \A code \in {<<0, 0, 0, 1, 2, 3>>, <<1, 0, 0, 0, 0, 0>>,
                    <<9, 9, 9, 9, 9, 9>>} :
          ENABLED StoresCode(code)

\* C24: in every reachable state, with two check_alerts calls interleaved at
\* their awaited sends and with clears between them, the record at 1-based
\* position i of the alert history has id i, so no two records that are in
\* the history together share an id.
C24_IdIsPosition ==
    /\ \A i \in 1..Len(alert_history) : alert_history[i].id = i
    /\ \A i, j \in 1..Len(alert_history) :
          alert_history[i].id = alert_history[j].id => i = j

\* Both calls are suspended in a send; the first created its alerts before
\* a clear and the second after it, so both hold an alert with id 1 while
\* the history holds only the second call's records.
C24_Witness ==
    /\ \A c \in CallIds : calls[c].pc \in {"email", "sms"}
    /\ Len(calls[1].alerts) = 2
    /\ calls[1].alerts[1].id = 1
    /\ Len(calls[2].alerts) = 1
    /\ calls[2].alerts[1].id = 1
    /\ alert_history = calls[2].alerts
    /\ calls[1].alerts[1] # calls[2].alerts[1]

\* C25: within one check_alerts call every alert of the call is constructed
\* and appended to the history before the first send attempt: the step that
\* starts the call makes no send and leaves the history extended by all the
\* call's alerts, in the order Landslide, Flood, Heavy Rainfall, and no send
\* step constructs or appends anything. The sends then go through the
\* alerts one at a time in that order: the first send is for alert 1, each
\* later send is for the same alert as the one before it or for the next
\* one, and for each alert the email attempt comes before the SMS attempt.
C25_BuildThenDispatch ==
    [][\A c \in CallIds :
          /\ BeginStep(c) =>
                LET alerts == calls'[c].alerts
                IN  /\ calls'[c].log = <<>>
                    /\ alert_history' = alert_history \o alerts
                    /\ \A i, j \in 1..Len(alerts) :
                          i < j => TypeRank(alerts[i].type)
                                     < TypeRank(alerts[j].type)
          /\ \A ch \in {"email", "sms"} :
                SendStep(c, ch) =>
                    LET old == calls[c].log
                        new == calls'[c].log
                        e == new[Len(new)]
                    IN  /\ calls'[c].alerts = calls[c].alerts
                        /\ alert_history' = alert_history
                        /\ new = Append(old, e)
                        /\ e.ch = ch
                        /\ IF old = <<>>
                           THEN /\ e.alert = 1
                                /\ EmailEligible(calls[c].settings)
                                      => e.ch = "email"
                           ELSE LET p == old[Len(old)]
                                IN  \/ /\ e.alert = p.alert
                                       /\ p.ch = "email"
                                       /\ e.ch = "sms"
                                    \/ /\ e.alert = p.alert + 1
                                       /\ EmailEligible(calls[c].settings)
                                             => e.ch = "email"
      ]_vars

\* A call with three alerts and both channels is suspended in the SMS send
\* of its second alert, its three records in the history since it started.
C25_Witness ==
    /\ calls[1].pc = "sms"
    /\ calls[1].i = 2
    /\ Len(calls[1].alerts) = 3
    /\ Len(calls[1].log) = 3
    /\ calls[1].log[1].ch = "email" /\ calls[1].log[1].alert = 1
    /\ calls[1].log[2].ch = "sms" /\ calls[1].log[2].alert = 1
    /\ calls[1].log[3].ch = "email" /\ calls[1].log[3].alert = 2
    /\ alert_history = calls[1].alerts

\* The threshold of `settings` that gates the metric of an alert of `type`.
ThresholdOf(settings, type) ==
    IF type = "Landslide" THEN settings.landslide_threshold
    ELSE IF type = "Flood" THEN settings.flood_threshold
    ELSE settings.rainfall_threshold

\* C26: a check_alerts call uses the settings it loaded at its start for
\* its whole duration. The call loads the record stored for its user when
\* it starts; a step that changes the settings store while the call is in
\* flight leaves the call's settings and alerts as they were; and every
\* send of the call, whatever the store holds by then, carries the
\* threshold of the loaded settings in its alert, goes to the contact of
\* the loaded settings and is followed by the channel the loaded settings
\* make eligible.
C26_SettingsFixedAtStart ==
    [][\A c \in CallIds :
          /\ (BeginStep(c) /\ calls'[c].configured) =>
                /\ calls'[c].user \in DOMAIN user_alert_settings
                /\ calls'[c].settings = user_alert_settings[calls'[c].user]
          /\ (calls[c].pc # "idle"
                /\ user_alert_settings' # user_alert_settings) =>
                calls'[c] = calls[c]
          /\ \A ch \in {"email", "sms"} :
                SendStep(c, ch) =>
                    LET call == calls[c]
                        e == calls'[c].log[Len(calls'[c].log)]
                    IN  /\ calls'[c].settings = call.settings
                        /\ calls'[c].alerts = call.alerts
                        /\ e.to = IF ch = "email" THEN call.settings.email
                                  ELSE call.settings.phone
                        /\ \A k \in 1..Len(call.log) :
                              call.log[k].ch = ch => call.log[k].to = e.to
                        /\ call.alerts[e.alert].threshold
                             = ThresholdOf(call.settings,
                                           call.alerts[e.alert].type)
                        /\ (ch = "email" /\ SmsEligible(call.settings)) =>
                              /\ calls'[c].pc = "sms"
                              /\ calls'[c].i = call.i
      ]_vars

\* A call that loaded settings with a phone and low thresholds has sent
\* for its first alert and is suspended in the SMS send of its second one,
\* while the store already holds the user's new settings, saved since the
\* call started: no phone, SMS disabled, higher thresholds.
C26_Witness ==
    /\ calls[1].pc = "sms"
    /\ calls[1].i = 2
    /\ Len(calls[1].log) = 3
    /\ calls[1].log[2].to = "9163615366"
    /\ calls[1].settings.phone = "9163615366"
    /\ calls[1].user \in DOMAIN user_alert_settings
    /\ user_alert_settings[calls[1].user].phone = ""
    /\ ~user_alert_settings[calls[1].user].enable_sms
    /\ user_alert_settings[calls[1].user].landslide_threshold
         > calls[1].alerts[1].threshold
    /\ resp.op = "save_alert_settings"
    /\ resp.user = calls[1].user

\* User u has a record whose verified flag is true.
HasVerified(store, u) == u \in DOMAIN store /\ store[u].verified

\* C27: a user's record is verified only through a verify_otp that supplied
\* exactly the code of the user's most recent issuance while now <= its
\* expiry. The flag turns true only in a verify_otp step answered with
\* success, taken with now <= expiry of the record as it stood, by an
\* entered string equal to that record's code; a record appears, or its
\* phone, code or expiry changes, only in a send_verification_otp step,
\* which stores the phone it was given and an unverified record; so the
\* phone get_verification_status reports as verified is the phone of the
\* record of the most recent issuance.
C27_VerifiedMeansVerifiedCode ==
    [][\A u \in Users :
          /\ (HasVerified(otp_storage', u) /\ ~HasVerified(otp_storage, u)) =>
                /\ IsVerified(resp')
                /\ resp'.user = u
                /\ u \in DOMAIN otp_storage
                /\ now <= otp_storage[u].expiry
                /\ otp_storage'[u]
                     = [otp_storage[u] EXCEPT !.verified = TRUE]
                /\ \A e \in VerifyEntries :
                      verify_otp(u, e) => e = otp_storage[u].otp
          /\ (/\ u \in DOMAIN otp_storage'
              /\ \/ u \notin DOMAIN otp_storage
                 \/ otp_storage'[u].phone # otp_storage[u].phone
                 \/ otp_storage'[u].otp # otp_storage[u].otp
                 \/ otp_storage'[u].expiry # otp_storage[u].expiry) =>
                /\ IssueStep(u)
                /\ ~otp_storage'[u].verified
                /\ \A ph \in VerifyPhones, n \in VerifyDraws,
                      dl \in Deliveries :
                      send_verification_otp(u, ph, n, dl) =>
                          otp_storage'[u] = NewOtpRecord(ph, n, now)
          /\ (StatusStep(u) /\ resp'.verified) =>
                /\ HasVerified(otp_storage, u)
                /\ resp'.phone = otp_storage[u].phone
      ]_vars

\* get_verification_status reports as verified the phone of a record that
\* was issued after the clock had moved on, with the second phone and the
\* top code of the range, while the other user's record is not verified.
C27_Witness ==
    \E v \in Users :
        /\ resp.op = "get_verification_status"
        /\ resp.verified
        /\ resp.phone = "+919000000001"
        /\ HasVerified(otp_storage, resp.user)
        /\ otp_storage[resp.user].phone = "+919000000001"
        /\ otp_storage[resp.user].otp = <<9, 9, 9, 9, 9, 9>>
        /\ otp_storage[resp.user].expiry > OtpTtl
        /\ v # resp.user
        /\ v \in DOMAIN otp_storage
        /\ ~otp_storage[v].verified

\* C28 (as claimed): check_alerts attempts an SMS only to a phone that
\* get_verification_status reports as verified for the call's user: at
\* every SMS send of a call, the user has a verified OTP record and its
\* phone is the destination of the send.
C28_SmsOnlyToVerifiedPhone ==
    [][\A c \in CallIds :
          SendStep(c, "sms") =>
              /\ HasVerified(otp_storage, calls[c].user)
              /\ otp_storage[calls[c].user].phone
                   = calls'[c].log[Len(calls'[c].log)].to
      ]_vars

\* A step in which verify_otp answers user u.
VerifyStep(u) == resp'.op = "verify_otp" /\ resp'.user = u

\* How many of the four outcomes of verify_otp the response r is.
OutcomesOf(r) ==
    Cardinality({k \in 1..4 :
                    \/ k = 1 /\ IsNotFound(r)
                    \/ k = 2 /\ IsExpired(r)
                    \/ k = 3 /\ IsMismatch(r)
                    \/ k = 4 /\ IsVerified(r)})

\* C29: verify_otp checks record-exists, then expiry, then code match. Every
\* call returns exactly one of NotFound, Expired, Mismatch and success:
\* NotFound exactly when the user has no record; otherwise Expired exactly
\* when now > expiry, whatever was entered, so a wrong code when now >
\* expiry is answered Expired, not Mismatch, and the record is deleted; a
\* wrong code when now <= expiry is answered Mismatch and the store is left
\* as it was; and success is returned exactly when now <= expiry and the
\* entered string is the stored code.
C29_ExistsExpiryCode ==
    [][\A u \in Users, e \in VerifyEntries :
          (VerifyStep(u) /\ verify_otp(u, e)) =>
              /\ OutcomesOf(resp') = 1
              /\ IsNotFound(resp') = (u \notin DOMAIN otp_storage)
              /\ u \in DOMAIN otp_storage =>
                    LET stored == otp_storage[u]
                    IN  /\ IsExpired(resp') = (now > stored.expiry)
                        /\ (now > stored.expiry /\ e # stored.otp) =>
                              /\ ~IsMismatch(resp')
                              /\ otp_storage' = DictDel(otp_storage, u)
                              /\ u \notin DOMAIN otp_storage'
                        /\ (now <= stored.expiry /\ e # stored.otp) =>
                              /\ IsMismatch(resp')
                              /\ otp_storage' = otp_storage
                        /\ IsVerified(resp')
                             = (now <= stored.expiry /\ e = stored.otp)
      ]_vars

\* A verify was answered Expired and removed the user's record, while the
\* other user's verified record, also past its expiry, stays in the store
\* until a verify looks at it. (Any entered string, right or wrong, is
\* answered this way; the formula above covers each.)
C29_Witness ==
    \E v \in Users :
        /\ IsExpired(resp)
        /\ resp.user \notin DOMAIN otp_storage
        /\ v # resp.user
        /\ HasVerified(otp_storage, v)
        /\ now > otp_storage[v].expiry

\* The response r is a delivery error of send_verification_otp for user u.
IsDeliveryError(r, u) ==
    /\ r.op = "send_verification_otp"
    /\ r.user = u
    /\ r.status = "error"
    /\ r.message \in {"SMS service not configured",
                      "Failed to send verification code"}

\* C30: send_verification_otp stores the new record whatever the delivery
\* does. When the provider is unconfigured or the send fails, the call
\* returns the matching error and the user's previous record, if any, has
\* been replaced by a new unverified record with the given phone, the drawn
\* code and expiry now + 10 minutes; the verify that follows such an error
\* finds that record, succeeds with its code while now <= expiry and is
\* answered Expired after it.
C30_StoredDespiteDeliveryError ==
    [][\A u \in Users :
          /\ \A ph \in VerifyPhones \ {""}, n \in VerifyDraws,
                dl \in {"unconfigured", "failed"} :
                (IssueStep(u) /\ send_verification_otp(u, ph, n, dl)) =>
                    /\ IsDeliveryError(resp', u)
                    /\ resp'.message
                         = IF dl = "unconfigured"
                           THEN "SMS service not configured"
                           ELSE "Failed to send verification code"
                    /\ otp_storage'
                         = DictPut(otp_storage, u, NewOtpRecord(ph, n, now))
                    /\ otp_storage'[u].otp = PyStr(n)
                    /\ ~otp_storage'[u].verified
          /\ \A e \in VerifyEntries :
                (IsDeliveryError(resp, u) /\ VerifyStep(u)
                   /\ verify_otp(u, e)) =>
                    /\ u \in DOMAIN otp_storage
                    /\ ~otp_storage[u].verified
                    /\ (e = otp_storage[u].otp
                          /\ now <= otp_storage[u].expiry) =>
                          /\ IsVerified(resp')
                          /\ resp'.phone = otp_storage[u].phone
                          /\ otp_storage'[u].verified
                    /\ now > otp_storage[u].expiry => IsExpired(resp')
      ]_vars

\* The provider was not configured when the user asked for a new code for
\* the second phone, after the clock had moved on: the answer is the error
\* and the new unverified record is in the store.
C30_Witness ==
    /\ resp.op = "send_verification_otp"
    /\ resp.message = "SMS service not configured"
    /\ resp.user \in DOMAIN otp_storage
    /\ otp_storage[resp.user]
         = [phone |-> "+919000000001", otp |-> <<1, 0, 0, 0, 0, 0>>,
            expiry |-> now + OtpTtl, verified |-> FALSE]
    /\ now > OtpTtl

\* User u has a record in one of the two stores only, or the two stores
\* hold different records for u.
RecordDiffers(old, new, u) ==
    \/ (u \in DOMAIN old) # (u \in DOMAIN new)
    \/ u \in DOMAIN old /\ u \in DOMAIN new /\ old[u] # new[u]

\* C31: expiry is lazy. A step in which the clock moves changes neither the
\* OTP store nor the last response; a user's record changes or disappears
\* only in a send_verification_otp or verify_otp step for that user, and a
\* verified record disappears only in a verify_otp answered Expired with
\* now > expiry; and get_verification_status for a user verified before the
\* expiry still reports verified = true with the phone after now has passed
\* the expiry, leaving the record in the store.
C31_ExpiryIsLazy ==
    [][/\ now' # now => (otp_storage' = otp_storage /\ resp' = resp)
       /\ \A u \in Users :
             /\ RecordDiffers(otp_storage, otp_storage', u) =>
                   IssueStep(u) \/ VerifyStep(u)
             /\ (HasVerified(otp_storage, u)
                   /\ u \notin DOMAIN otp_storage') =>
                   /\ VerifyStep(u)
                   /\ IsExpired(resp')
                   /\ now > otp_storage[u].expiry
             /\ (StatusStep(u) /\ get_verification_status(u)
                   /\ HasVerified(otp_storage, u)
                   /\ now > otp_storage[u].expiry) =>
                   /\ resp'.verified
                   /\ resp'.phone = otp_storage[u].phone
                   /\ otp_storage' = otp_storage
      ]_vars

\* get_verification_status has just reported verified = true for a user
\* whose record is past its expiry and still in the store.
C31_Witness ==
    /\ resp.op = "get_verification_status"
    /\ resp.verified
    /\ HasVerified(otp_storage, resp.user)
    /\ now > otp_storage[resp.user].expiry
    /\ resp.phone = otp_storage[resp.user].phone

\* C32: per-user and per-component isolation. The settings record of a user
\* B changes only in a save_alert_settings step for B, and that step leaves
\* the OTP store, the alert history and the calls in flight alone; the OTP
\* record of B changes only in a send_verification_otp or verify_otp step
\* for B, and that step leaves the settings store and the alert history
\* alone; a step of a check_alerts call changes neither the settings store
\* nor the OTP store; and the alert history is shared by all users: a call
\* of any user appends to the one list and continues its id sequence.
C32_Isolation ==
    [][/\ \A B \in Users :
             /\ RecordDiffers(user_alert_settings, user_alert_settings', B) =>
                   /\ resp'.op = "save_alert_settings"
                   /\ resp'.user = B
                   /\ otp_storage' = otp_storage
                   /\ alert_history' = alert_history
                   /\ calls' = calls
             /\ RecordDiffers(otp_storage, otp_storage', B) =>
                   /\ IssueStep(B) \/ VerifyStep(B)
                   /\ user_alert_settings' = user_alert_settings
                   /\ alert_history' = alert_history
                   /\ calls' = calls
       /\ \A c \in CallIds :
             /\ calls'[c] # calls[c] =>
                   /\ user_alert_settings' = user_alert_settings
                   /\ otp_storage' = otp_storage
             /\ BeginStep(c) =>
                   /\ alert_history' = alert_history \o calls'[c].alerts
                   /\ \A k \in 1..Len(calls'[c].alerts) :
                         calls'[c].alerts[k].id = Len(alert_history) + k
      ]_vars

\* The two users hold different settings, one of them has a verified OTP
\* record and the other none, and a call of the second user is suspended
\* in its email send with an alert of id 2, appended to the history behind
\* the record with id 1.
C32_Witness ==
    /\ DOMAIN user_alert_settings = Users
    /\ user_alert_settings["u1"].email = "a@x.in"
    /\ user_alert_settings["u2"].email = "b@x.in"
    /\ DOMAIN otp_storage = {"u1"}
    /\ otp_storage["u1"].verified
    /\ calls[1].pc = "email"
    /\ calls[1].user = "u2"
    /\ calls[1].settings = user_alert_settings["u2"]
    /\ Len(alert_history) = 2
    /\ alert_history[1].id = 1
    /\ alert_history[2] = calls[1].alerts[1]
    /\ alert_history[2].id = 2

\* A step in which chat_explanation answers.
ChatStep == chat_resp'.op = "chat_explanation"

\* The response r came from a call of the inference API.
ViaApi(r) == r.via \in {"api", "api_error"}

\* C33: chat_explanation makes at most one call of the inference API every
\* 5 seconds. A request that calls the API, whether the call answers or
\* raises, arrives at least 5 seconds after the previous API call and
\* becomes the last API call; a request whose key has no fresh cache entry
\* and which arrives less than 5 seconds after the last API call is
\* answered with the rule-based fallback for its own readings, without a
\* call of the API and with the cache, the cache times and the last-call
\* time left as they were.
C33_OneApiCallPerFiveSeconds ==
    [][\A r \in ChatRequests, o \in ApiOutcomes :
          (ChatStep /\ chat_explanation(r, o)) =>
              /\ ViaApi(chat_resp') =>
                    /\ time_now - chat.last_api_call >= 5
                    /\ chat'.last_api_call = time_now
              /\ ~ViaApi(chat_resp') => chat' = chat
              /\ (/\ ~CacheFresh(chat, CacheKey(r), time_now)
                  /\ time_now - chat.last_api_call < 5) =>
                    /\ chat_resp'.via = "rate_limit"
                    /\ chat_resp'.explanation = FallbackText(r)
                    /\ chat' = chat
      ]_vars

\* Four seconds after an API call a request with another key, which has
\* no cache entry, was answered with the fallback; the key is still not
\* cached and the last-call time is that of the earlier call.
C33_Witness ==
    /\ chat_resp.op = "chat_explanation"
    /\ chat_resp.via = "rate_limit"
    /\ chat_resp.explanation.kind = "fallback"
    /\ chat_resp.key \notin DOMAIN chat.cache
    /\ chat.cache # EmptyDict
    /\ time_now - chat.last_api_call = 4

\* C34 (as claimed): a fallback cached after a failure of the inference API
\* is served from the cache for 10 minutes only: a request whose key holds
\* a cached fallback more than 600 seconds old is not answered from the
\* cache.
C34_FallbackServedTenMinutes ==
    [][\A r \in ChatRequests, o \in ApiOutcomes :
          (/\ ChatStep
           /\ CacheKey(r) \in DOMAIN chat.cache
           /\ chat.cache[CacheKey(r)].kind = "fallback"
           /\ time_now - chat.cache_time[CacheKey(r)] > 600
           /\ chat_explanation(r, o)) =>
              chat_resp'.via # "cache"
      ]_vars

====
